---------------------------- MODULE Spec2Model ----------------------------
(***************************************************************************)
(* Model of the scan-and-ingest engine of atlas (Go package scan):         *)
(*   - parseNmapPorts (deep_scan.go), the parser of the nmap "Ports:"      *)
(*     field;                                                              *)
(*   - RemoteConfig.Enabled / endpoint / PostPayload (remote.go) and       *)
(*     RemotePayloadOptions.emit / emitHosts (types.go);                   *)
(*   - the hosts table with upsertHost and SaveHostsToDB (types.go);       *)
(*   - FastScan / fastScanCore (fast_scan.go), DeepScan with its per-host  *)
(*     goroutines, WaitGroup and mutex (deep_scan.go);                     *)
(*   - RunRemoteAgent (agent.go), the scheduler loop.                      *)
(*                                                                         *)
(* A Go string that the code splits or compares is modelled as a sequence  *)
(* of tokens whose concatenation is the string; the separator characters   *)
(* "," "/" and " " always stand alone as tokens, so strings.Split and      *)
(* strconv.Atoi can be computed as the code computes them.  Strings the    *)
(* code only copies or compares with "" are TLA+ strings.                  *)
(***************************************************************************)
EXTENDS Integers, Sequences, FiniteSets, TLC

VARIABLES
    \* ---- parseNmapPorts harness
    pEntries,     \* the nmap port entries the "Ports:" field was rendered from
    portsField,   \* the argument s of parseNmapPorts, a token sequence
    details,      \* the PortDetails returned
    pPc,          \* "ready" before the call, "done" after it
    \* ---- payload conversion harness
    hRec,         \* the HostRecord converted
    hAfter,       \* the same HostRecord as its caller sees it after the call
    hPayload,     \* the RemoteHostPayload returned by ToRemoteHostPayload
    hWire,        \* its JSON encoding
    hDecoded,     \* the RemoteHostPayload decoded from the encoding
    hPc,          \* "ready", "converted", "decoded"
    \* ---- direct calls of bestHostName
    bIn,          \* the sweep name and the answers of the two lookups
    bOut,         \* what bestHostName returned and the lookups it made
    bPc,
    \* ---- direct calls of runNmap and discoverLiveHosts
    nOut,         \* what nmap -sn printed, and whether it failed
    nMap,         \* what runNmap returned
    nList,        \* what discoverLiveHosts returned
    nPc,
    \* ---- the fastscan command
    cliArgs,      \* the flags of the command line
    cliErr,       \* the flag error the command died of (Nil for none)
    \* ---- direct calls of the remote emitter
    rcfg,         \* the RemoteConfig of the call
    rPrintJSON,   \* RemotePayloadOptions.PrintJSON of the call
    rHosts,       \* the []HostRecord handed to emitHosts / BuildRemotePayload
    rCall,        \* the function called: "endpoint", "PostPayload", "emit", "emitHosts"
    rRet,         \* the error returned (Nil for nil)
    rResp,        \* the controller's answer to the call's request, if it made one
    rUrl,         \* the string returned by endpoint()
    rPc,          \* "ready" before the call, "done" after it
    \* ---- the outside world, shared by the harness and the scan cycles
    netRequests,  \* HTTP requests handed to client.Do since the last reset
    stdoutJSON,   \* payloads printed to stdout by emit since the last reset
    hostsTable,   \* the rows of the SQLite table hosts, in insertion order
    externalNetworks, \* the rows of the table external_networks
    clock,        \* time.Now(), in seconds
    \* ---- direct calls of upsertHost
    uCalls,       \* number of upsertHost calls made
    uFirst,       \* per key, the record of the first call that succeeded
    uLast,        \* per key, the record and time of the last call that succeeded
    uPc,          \* "ready" while calls are made, "idle" outside this harness
    \* ---- one scan cycle: a call of FastScan or DeepScan
    fn,           \* the function running: "none", "FastScan", "DeepScan"
    scanOpts,     \* its options: SkipDB and Remote (PrintJSON, Config)
    cpc,          \* where the call stands: "idle", "interfaces", "sweep", "persist",
                  \* "opendb", "spawn", "wait", "emit", "returned"
    interfaces,       \* the interfaces being swept
    ifIdx,        \* index of the next interface to sweep
    swept,        \* per interface swept so far: the outcome of its sweep
    discovered,   \* hostInfos (DeepScan) or discovered (fastScanCore)
    logCreated,   \* os.Create gave the cycle a progress log file
    progressLog,  \* the failure messages of the cycle, each with whether it
                  \* reached the log file or stdout
    db,           \* DeepScan's db handle: "nil" or "open"
    markedScope,  \* what the cycle marked offline: interface names, or "all"
    tpc,          \* per host task: "scan", "nmap", "read", "ping", "upsert", "lock",
                  \* "write", "unlocked", "done", "hung"
    tprobe,       \* per host task: how its scanAllTcp call went: "none" before,
                  \* "ok", "failed" (nmap), "unreadable" (scratch file), "hung"
    scratch,      \* per scratch file of scanAllTcp: "none", "empty" or "full"
    tscan,        \* per host task: what its scanAllTcp call returned (<<>> before)
    trec,         \* per host task: the HostRecord it built
    ttmp,         \* per host task: the slice it read for append
    batchMu,      \* the mutex: 0 when free, else the index of the holder
    remoteBatch,  \* the shared accumulator
    joined,       \* wg.Wait() has returned in this cycle
    ret,          \* the error the call returned (Nil for nil)
    cycles,       \* number of calls started
    prevTable,    \* the hosts table when the cycle started
    gateway,      \* fastScanCore's gatewayIP ("" when getDefaultGateway fails)
    \* ---- RunRemoteAgent
    apc,          \* where the agent stands: "idle" (no agent), "start",
                  \* "initial", "loop", "running", "returned"
    cfgArg,       \* the AgentConfig RunRemoteAgent was called with
    cfg,          \* its AgentConfig
    iteration,    \* its counter of runs
    tickReady,    \* ticker.C holds a tick
    ticksFired,   \* how many times the ticker has fired
    agentRet,     \* the error RunRemoteAgent returned
    agentLog,     \* the [agent] lines about runs it printed
    activeRuns,   \* the runs whose runOnce() has been called and has not returned
    runs          \* number of runOnce() calls made

parseVars == <<pEntries, portsField, details, pPc>>
payloadVars == <<hRec, hAfter, hPayload, hWire, hDecoded, hPc>>
cliVars == <<cliArgs, cliErr>>
nameVars == <<bIn, bOut, bPc>>
sweepVars == <<nOut, nMap, nList, nPc>>
remoteVars == <<rcfg, rPrintJSON, rHosts, rCall, rRet, rResp, rUrl, rPc>>
worldVars == <<netRequests, stdoutJSON>>
dbVars == <<hostsTable, externalNetworks, clock>>
upsertVars == <<uCalls, uFirst, uLast, uPc>>
cycleVars == <<fn, logCreated, scanOpts, cpc, interfaces, ifIdx, swept, discovered,
               progressLog, db, markedScope, tpc, tprobe, scratch, tscan, trec, ttmp, batchMu,
               remoteBatch, joined, ret, cycles, prevTable, gateway>>
agentVars == <<apc, cfgArg, cfg, iteration, tickReady, ticksFired, agentRet, agentLog,
          activeRuns, runs>>

vars == <<pEntries, portsField, details, pPc,
          hRec, hAfter, hPayload, hWire, hDecoded, hPc, cliArgs, cliErr,
          bIn, bOut, bPc, nOut, nMap, nList, nPc,
          rcfg, rPrintJSON, rHosts, rCall, rRet, rResp, rUrl, rPc,
          netRequests, stdoutJSON, hostsTable, externalNetworks, clock,
          uCalls, uFirst, uLast, uPc,
          fn, logCreated, scanOpts, cpc, interfaces, ifIdx, swept, discovered, progressLog, db,
          markedScope, tpc, tprobe, scratch, tscan, trec, ttmp, batchMu, remoteBatch, joined, ret,
          cycles, prevTable, gateway,
          apc, cfgArg, cfg, iteration, tickReady, ticksFired, agentRet, agentLog,
          activeRuns, runs>>

(***************************************************************************)
(* Bounds of the model.                                                    *)
(***************************************************************************)
\* longest generated list of port entries (the two test fixtures are added)
MaxEntries == 2
\* number of direct upsertHost calls
MaxUpserts == 3
\* number of runs (the initial one included) the agent is followed for
MaxRuns == 3
MaxTicks == 3

(***************************************************************************)
(* Token-sequence strings.                                                 *)
(***************************************************************************)
RECURSIVE SplitAcc(_, _, _, _, _)
SplitAcc(s, sep, i, cur, acc) ==
    IF i > Len(s) THEN Append(acc, cur)
    ELSE IF s[i] = sep THEN SplitAcc(s, sep, i + 1, <<>>, Append(acc, cur))
    ELSE SplitAcc(s, sep, i + 1, Append(cur, s[i]), acc)

\* strings.Split(s, sep) for a one-character separator: Len(result) is the
\* number of separators plus one, empty fields included.
Split(s, sep) == SplitAcc(s, sep, 1, <<>>, <<>>)

RECURSIVE Join(_, _)
\* strings.Join(parts, sep)
Join(parts, sep) ==
    IF Len(parts) = 0 THEN <<>>
    ELSE IF Len(parts) = 1 THEN parts[1]
    ELSE parts[1] \o sep \o Join(Tail(parts), sep)

\* the decimal port tokens used by the inputs, with their values
PortTokens == {"53", "80", "123", "161", "443"}

DigitsValue(t) ==
    CASE t = "53" -> 53
      [] t = "80" -> 80
      [] t = "123" -> 123
      [] t = "161" -> 161
      [] t = "443" -> 443
      [] OTHER -> 0

\* portNum, _ := strconv.Atoi(portStr): the value of a string that is one
\* decimal token, and 0 (the error is discarded) for anything else, a
\* leading space included.
Atoi(str) ==
    IF Len(str) = 1 /\ str[1] \in PortTokens THEN DigitsValue(str[1]) ELSE 0

(***************************************************************************)
(* parseNmapPorts (deep_scan.go:94-122).                                   *)
(***************************************************************************)
\* if state == "open" || state == "filtered"
StateAccepted(state) == state = <<"open">> \/ state = <<"filtered">>

\* part := fmt.Sprintf("%s/%s", portStr, proto), then " (service)" if any
ReadablePart(fields) ==
    LET part == fields[1] \o <<"/">> \o fields[3]
    IN  IF fields[5] # <<>> THEN part \o <<" ", "(">> \o fields[5] \o <<")">>
        ELSE part

\* RemotePort{Port: portNum, Protocol: proto, Service: service, State: state}
PortOf(fields) ==
    [Port |-> Atoi(fields[1]), Protocol |-> fields[3],
     Service |-> fields[5], State |-> fields[2]]

RECURSIVE ParseParts(_, _, _)
\* the loop over parts: entries of fewer than 5 fields are skipped, entries
\* whose state is accepted are appended to readable and to ports
ParseParts(parts, readable, ports) ==
    IF parts = <<>> THEN [readable |-> readable, ports |-> ports]
    ELSE LET fields == Split(Head(parts), "/")
         IN  IF Len(fields) >= 5 /\ StateAccepted(fields[2])
             THEN ParseParts(Tail(parts), Append(readable, ReadablePart(fields)),
                             Append(ports, PortOf(fields)))
             ELSE ParseParts(Tail(parts), readable, ports)

parseNmapPorts(s) ==
    LET r == ParseParts(Split(s, ","), <<>>, <<>>)
    IN  [Summary |-> IF Len(r.readable) > 0 THEN Join(r.readable, <<",", " ">>)
                     ELSE <<"Unknown">>,
         Ports |-> r.ports]

(***************************************************************************)
(* Inputs of parseNmapPorts: the "Ports:" field nmap writes in grepable     *)
(* output, entries "port/state/protocol/owner/service/rpc/version/" joined  *)
(* by ", ".  A short entry (fewer than 5 fields) stands for damaged output. *)
(***************************************************************************)
EntryStates == {"open", "closed", "filtered", "open|filtered", "unfiltered"}

Entry(port, state, proto, service, short) ==
    [port |-> port, state |-> state, proto |-> proto, service |-> service,
     short |-> short]

GenEntries ==
    {Entry(p, st, "tcp", sv, FALSE) :
        p \in {"53", "80"}, st \in EntryStates, sv \in {"", "http"}}
    \cup {Entry("80", "open", "tcp", "", TRUE)}

\* "53/open|filtered/tcp//domain///, 123/open/udp//ntp///, 161/filtered/udp//snmp///"
FixtureOpenVariants ==
    << Entry("53", "open|filtered", "tcp", "domain", FALSE),
       Entry("123", "open", "udp", "ntp", FALSE),
       Entry("161", "filtered", "udp", "snmp", FALSE) >>

\* "80/unfiltered/tcp//http///, 443/closed/tcp//https///"
FixtureUnfiltered ==
    << Entry("80", "unfiltered", "tcp", "http", FALSE),
       Entry("443", "closed", "tcp", "https", FALSE) >>

Opt(str) == IF str = "" THEN <<>> ELSE <<str>>

RenderEntry(e) ==
    IF e.short THEN <<e.port, "/", e.state, "/", e.proto>>
    ELSE <<e.port, "/", e.state, "/", e.proto, "/", "/">> \o Opt(e.service)
         \o <<"/", "/", "/">>

RECURSIVE RenderField(_)
RenderField(es) ==
    IF es = <<>> THEN <<>>
    ELSE IF Len(es) = 1 THEN RenderEntry(es[1])
    ELSE RenderEntry(es[1]) \o <<",", " ">> \o RenderField(Tail(es))

EntryLists ==
    UNION {[1..n -> GenEntries] : n \in 0..MaxEntries}
    \cup {FixtureOpenVariants, FixtureUnfiltered}

NoDetails == [Summary |-> <<>>, Ports |-> <<>>]

ParseIdle ==
    /\ pEntries = <<>>
    /\ portsField = <<>>
    /\ details = NoDetails
    /\ pPc = "idle"


(***************************************************************************)
(* RemoteConfig (remote.go).  ControllerURL, SiteID and AgentID are token  *)
(* sequences ("/" stands alone; "." and ".." occur only as whole path      *)
(* segments), SiteName is a token sequence too; AgentVersion and Token are *)
(* plain strings.                                                          *)
(***************************************************************************)
Nil == <<>>    \* the nil error; an error is a non-empty sequence of texts

\* Mutant of Enabled: only the controller URL is required.
EnabledUrlOnly(rc) == rc.ControllerURL # <<>>

\* Mutant of Enabled: the agent ID is not looked at.
EnabledNoAgent(rc) == rc.ControllerURL # <<>> /\ rc.SiteID # <<>>

\* func (rc RemoteConfig) Enabled() bool
Enabled(rc) == rc.ControllerURL # <<>> /\ rc.SiteID # <<>> /\ rc.AgentID # <<>>

RECURSIVE TrimRight(_, _)
\* strings.TrimRight(s, "/"): every trailing cut character is removed
TrimRight(s, cut) ==
    IF s # <<>> /\ s[Len(s)] = cut THEN TrimRight(SubSeq(s, 1, Len(s) - 1), cut)
    ELSE s

RECURSIVE CleanSegs(_, _, _)
\* the segment rules of path.Clean: empty and "." segments are dropped, a
\* ".." removes the segment before it, or stays when the path is not
\* rooted and nothing is left to remove
CleanSegs(segs, out, rooted) ==
    IF segs = <<>> THEN out
    ELSE LET sg == Head(segs)
             rest == Tail(segs)
         IN  IF sg = <<>> \/ sg = <<".">> THEN CleanSegs(rest, out, rooted)
             ELSE IF sg = <<"..">>
                  THEN IF out # <<>> /\ out[Len(out)] # <<"..">>
                       THEN CleanSegs(rest, SubSeq(out, 1, Len(out) - 1), rooted)
                       ELSE IF rooted THEN CleanSegs(rest, out, rooted)
                       ELSE CleanSegs(rest, Append(out, sg), rooted)
                  ELSE CleanSegs(rest, Append(out, sg), rooted)

\* path.Clean(p)
PathClean(p) ==
    LET rooted == p # <<>> /\ p[1] = "/"
        body == Join(CleanSegs(Split(p, "/"), <<>>, rooted), <<"/">>)
        res == IF rooted THEN <<"/">> \o body ELSE body
    IN  IF res = <<>> THEN <<".">> ELSE res

\* path.Join(elems...): the non-empty elements joined by "/", then cleaned
PathJoin(elems) ==
    LET nonEmpty == SelectSeq(elems, LAMBDA e : e # <<>>)
    IN  IF nonEmpty = <<>> THEN <<>> ELSE PathClean(Join(nonEmpty, <<"/">>))

ErrIncomplete ==
    <<"remote config incomplete: controller url, site id, and agent id are required">>

\* func (rc RemoteConfig) endpoint() (string, error)
endpoint(rc) ==
    IF ~Enabled(rc) THEN [url |-> <<>>, err |-> ErrIncomplete]
    ELSE [url |-> TrimRight(rc.ControllerURL, "/") \o <<"/">>
                  \o PathJoin(<< <<"sites">>, rc.SiteID, <<"agents">>,
                                 rc.AgentID, <<"ingest">> >>),
          err |-> Nil]

\* What client.Do can answer: a transport error, or a response with a status.
NetErr == [neterr |-> TRUE, StatusCode |-> 0, Status |-> "", Body |-> <<>>]

HttpResponse(code, status, body) ==
    [neterr |-> FALSE, StatusCode |-> code, Status |-> status, Body |-> body]

Responses ==
    {NetErr, HttpResponse(200, "200 OK", <<"ok">>),
     HttpResponse(299, "299", <<>>),
     HttpResponse(300, "300 Multiple Choices", <<"moved", "\n">>),
     HttpResponse(500, "500 Internal Server Error", <<" ", "boom", "\n">>)}

\* url.Parse as http.NewRequest calls it on the endpoint: a URL with no
\* scheme whose first path segment holds a colon is rejected ("first path
\* segment in URL cannot contain colon")
SchemeTokens == {"https:", "http:"}

UrlParses(u) ==
    \/ (u # <<>> /\ u[1] \in SchemeTokens)
    \/ \A i \in DOMAIN Split(u, "/")[1] : Split(u, "/")[1][i] # ":"

ErrParseURL == <<"parse: first path segment in URL cannot contain colon">>

\* A value of Metadata (map[string]any) that encoding/json has no encoding
\* for, a func or a channel: json.Marshal and json.MarshalIndent return an
\* UnsupportedTypeError for a payload that holds one
NoJSON == "func()"

JsonEncodable(payload) ==
    \A i \in DOMAIN payload.Hosts :
        \/ payload.Hosts[i].Metadata.nil
        \/ \A k \in DOMAIN payload.Hosts[i].Metadata.v :
              payload.Hosts[i].Metadata.v[k] # NoJSON

ErrMarshal == <<"json: unsupported type">>

\* func (rc RemoteConfig) PostPayload(payload RemotePayload) error: the
\* error returned and the requests handed to client.Do (none or one).
PostPayload(rc, payload, resp) ==
    LET ep == endpoint(rc)
        req == [method |-> "POST", url |-> ep.url, body |-> payload,
                contentType |-> "application/json",
                authorization |-> IF rc.Token # "" THEN <<"Bearer ", rc.Token>>
                                  ELSE <<>>]
    IN  IF ep.err # Nil THEN [err |-> ep.err, requests |-> <<>>]
        ELSE IF ~JsonEncodable(payload) THEN [err |-> ErrMarshal, requests |-> <<>>]
        ELSE IF ~UrlParses(ep.url) THEN [err |-> ErrParseURL, requests |-> <<>>]
        ELSE IF resp.neterr THEN [err |-> <<"transport error">>, requests |-> <<req>>]
        ELSE IF resp.StatusCode >= 300
             THEN [err |-> <<"remote ingest failed: ", resp.Status>>,
                   requests |-> <<req>>]
        ELSE [err |-> Nil, requests |-> <<req>>]

RECURSIVE TrimSpace(_)
\* strings.TrimSpace(s): leading and trailing white space is removed
TrimSpace(s) ==
    IF s # <<>> /\ s[1] \in {" ", "\n"} THEN TrimSpace(Tail(s))
    ELSE IF s # <<>> /\ s[Len(s)] \in {" ", "\n"} THEN TrimSpace(SubSeq(s, 1, Len(s) - 1))
    ELSE s

\* PostPayload of the package's second remote.go, which reads the response
\* body and reports it in the error
PostPayloadWithBody(rc, payload, resp) ==
    LET ep == endpoint(rc)
        req == [method |-> "POST", url |-> ep.url, body |-> payload,
                contentType |-> "application/json",
                authorization |-> IF rc.Token # "" THEN <<"Bearer ", rc.Token>>
                                  ELSE <<>>]
    IN  IF ep.err # Nil THEN [err |-> ep.err, requests |-> <<>>]
        ELSE IF ~JsonEncodable(payload) THEN [err |-> ErrMarshal, requests |-> <<>>]
        ELSE IF ~UrlParses(ep.url) THEN [err |-> ErrParseURL, requests |-> <<>>]
        ELSE IF resp.neterr THEN [err |-> <<"transport error">>, requests |-> <<req>>]
        ELSE IF resp.StatusCode >= 300
             THEN [err |-> <<"remote ingest failed: ", resp.Status, " - ">>
                           \o TrimSpace(resp.Body),
                   requests |-> <<req>>]
        ELSE [err |-> Nil, requests |-> <<req>>]

(***************************************************************************)
(* HostRecord and the ingest payload (types.go).  A Go map is a function   *)
(* from its keys; time.Time is a count of seconds, 0 for the zero time.    *)
(***************************************************************************)
\* var ScannerVersion = "dev"
ScannerVersion == "dev"

EmptyMap == [k \in {} |-> ""]

MapPut(m, k, v) == [x \in DOMAIN m \cup {k} |-> IF x = k THEN v ELSE m[x]]

\* h.LastSeen.UTC().Format(time.RFC3339): the text of a time, by its seconds
FormatRFC3339(t) == <<t>>

\* Mutant of metadataForPayload: the record's own Metadata is not copied.
metadataDerivedOnly(h) ==
    LET m1 == IF h.InterfaceName # "" THEN MapPut(EmptyMap, "interface_name", h.InterfaceName)
              ELSE EmptyMap
        m2 == IF h.NetworkName # "" THEN MapPut(m1, "network_name", h.NetworkName)
              ELSE m1
    IN  IF h.NextHop # "" THEN MapPut(m2, "next_hop", h.NextHop) ELSE m2

\* func (h HostRecord) metadataForPayload() map[string]any
metadataForPayload(h) ==
    LET m0 == h.Metadata
        m1 == IF h.InterfaceName # "" THEN MapPut(m0, "interface_name", h.InterfaceName)
              ELSE m0
        m2 == IF h.NetworkName # "" THEN MapPut(m1, "network_name", h.NetworkName)
              ELSE m1
    IN  IF h.NextHop # "" THEN MapPut(m2, "next_hop", h.NextHop) ELSE m2

\* The two map objects metadataForPayload can reach: "rec", the map the
\* receiver's Metadata field refers to (the receiver is a copy of the
\* caller's struct, its map is the caller's map), and "new", the map made by
\* meta := map[string]any{}.  MetaWrites is the state of both after the
\* copy loop and the three conditional assignments, all of which write to
\* the map the variable meta refers to.
MetaWrites(h, meta) ==
    LET heap0 == [rec |-> h.Metadata, new |-> EmptyMap]
        Put(hp, k, v) == [hp EXCEPT ![meta] = MapPut(hp[meta], k, v)]
        heap1 == [heap0 EXCEPT ![meta] =
                     [k \in DOMAIN heap0[meta] \cup DOMAIN h.Metadata |->
                         IF k \in DOMAIN h.Metadata THEN h.Metadata[k]
                         ELSE heap0[meta][k]]]
        heap2 == IF h.InterfaceName # ""
                 THEN Put(heap1, "interface_name", h.InterfaceName) ELSE heap1
        heap3 == IF h.NetworkName # ""
                 THEN Put(heap2, "network_name", h.NetworkName) ELSE heap2
    IN  IF h.NextHop # "" THEN Put(heap3, "next_hop", h.NextHop) ELSE heap3

\* Mutant of metadataHeap: meta := h.Metadata, the derived keys are written
\* into the record's own map.
metadataHeapInPlace(h) == MetaWrites(h, "rec")

\* metadataForPayload on the two map objects: meta is the new map
metadataHeap(h) == MetaWrites(h, "new")

\* The HostRecord of the caller after h.ToRemoteHostPayload() returned.
\* The receiver is passed by value, so no field of the caller's struct is
\* assigned; payload.Tags = nil and payload.Ports = nil assign fields of
\* the payload, no element of either slice is written; the Metadata map is
\* the object "rec" as metadataForPayload left it.
ReceiverAfter(h) == [h EXCEPT !.Metadata = metadataHeap(h).rec]

\* A Go slice or map of the payload: nil, or a value that is not nil
NilRef == [nil |-> TRUE, v |-> <<>>]

Ref(v) == [nil |-> FALSE, v |-> v]

\* Mutant of ToRemoteHostPayload: nothing is set to nil.
ToRemoteHostPayloadRaw(h) ==
    [IP |-> h.IP, Hostname |-> h.Hostname, OS |-> h.OS, MAC |-> h.MAC,
     Note |-> h.Note, Tags |-> Ref(h.Tags),
     LastSeen |-> IF h.LastSeen # 0 THEN FormatRFC3339(h.LastSeen) ELSE <<>>,
     Metadata |-> Ref(metadataForPayload(h)),
     Ports |-> Ref(h.Ports)]

\* func (h HostRecord) ToRemoteHostPayload() RemoteHostPayload
ToRemoteHostPayload(h) ==
    LET meta == metadataForPayload(h)
    IN  [IP |-> h.IP, Hostname |-> h.Hostname, OS |-> h.OS, MAC |-> h.MAC,
         Note |-> h.Note,
         Tags |-> IF Len(h.Tags) = 0 THEN NilRef ELSE Ref(h.Tags),
         LastSeen |-> IF h.LastSeen # 0 THEN FormatRFC3339(h.LastSeen) ELSE <<>>,
         Metadata |-> IF Cardinality(DOMAIN meta) > 0 THEN Ref(meta) ELSE NilRef,
         Ports |-> IF Len(h.Ports) = 0 THEN NilRef ELSE Ref(h.Ports)]

(***************************************************************************)
(* encoding/json on the payload types.  A JSON object is a function from   *)
(* its keys; a field tagged omitempty is written only when it is not the   *)
(* empty string and not a slice or map of length 0 (nil or not).  Decoding *)
(* leaves the field of a missing key at its zero value.                    *)
(***************************************************************************)
OmitEmpty(key, empty) == IF empty THEN {} ELSE {key}

\* json.Marshal(RemotePort)
MarshalPort(p) ==
    [k \in {"port", "protocol"} \cup OmitEmpty("service", p.Service = <<>>)
           \cup OmitEmpty("state", p.State = <<>>) |->
        CASE k = "port" -> p.Port
          [] k = "protocol" -> p.Protocol
          [] k = "service" -> p.Service
          [] k = "state" -> p.State]

\* json.Marshal(RemoteHostPayload)
MarshalHost(p) ==
    [k \in {"ip"} \cup OmitEmpty("hostname", p.Hostname = "")
           \cup OmitEmpty("os", p.OS = "") \cup OmitEmpty("mac", p.MAC = "")
           \cup OmitEmpty("note", p.Note = "")
           \cup OmitEmpty("tags", Len(p.Tags.v) = 0)
           \cup OmitEmpty("last_seen", p.LastSeen = <<>>)
           \cup OmitEmpty("metadata", Cardinality(DOMAIN p.Metadata.v) = 0)
           \cup OmitEmpty("ports", Len(p.Ports.v) = 0) |->
        CASE k = "ip" -> p.IP
          [] k = "hostname" -> p.Hostname
          [] k = "os" -> p.OS
          [] k = "mac" -> p.MAC
          [] k = "note" -> p.Note
          [] k = "tags" -> p.Tags.v
          [] k = "last_seen" -> p.LastSeen
          [] k = "metadata" -> p.Metadata.v
          [] k = "ports" -> [i \in 1..Len(p.Ports.v) |-> MarshalPort(p.Ports.v[i])]]

\* json.Unmarshal into a RemotePort
UnmarshalPort(j) ==
    [Port |-> IF "port" \in DOMAIN j THEN j["port"] ELSE 0,
     Protocol |-> IF "protocol" \in DOMAIN j THEN j["protocol"] ELSE <<>>,
     Service |-> IF "service" \in DOMAIN j THEN j["service"] ELSE <<>>,
     State |-> IF "state" \in DOMAIN j THEN j["state"] ELSE <<>>]

\* json.Unmarshal into a RemoteHostPayload
UnmarshalHost(j) ==
    [IP |-> IF "ip" \in DOMAIN j THEN j["ip"] ELSE "",
     Hostname |-> IF "hostname" \in DOMAIN j THEN j["hostname"] ELSE "",
     OS |-> IF "os" \in DOMAIN j THEN j["os"] ELSE "",
     MAC |-> IF "mac" \in DOMAIN j THEN j["mac"] ELSE "",
     Note |-> IF "note" \in DOMAIN j THEN j["note"] ELSE "",
     Tags |-> IF "tags" \in DOMAIN j THEN Ref(j["tags"]) ELSE NilRef,
     LastSeen |-> IF "last_seen" \in DOMAIN j THEN j["last_seen"] ELSE <<>>,
     Metadata |-> IF "metadata" \in DOMAIN j THEN Ref(j["metadata"]) ELSE NilRef,
     Ports |-> IF "ports" \in DOMAIN j
               THEN Ref([i \in 1..Len(j["ports"]) |-> UnmarshalPort(j["ports"][i])])
               ELSE NilRef]

(***************************************************************************)
(* Harness of the payload conversion: one HostRecord is converted, encoded *)
(* and decoded again.                                                      *)
(***************************************************************************)
SamplePorts ==
    {<<>>,
     <<[Port |-> 80, Protocol |-> <<"tcp">>, Service |-> <<"http">>, State |-> <<"open">>]>>,
     <<[Port |-> 53, Protocol |-> <<"udp">>, Service |-> <<>>, State |-> <<>>],
       [Port |-> 0, Protocol |-> <<"tcp">>, Service |-> <<>>, State |-> <<"filtered">>]>>}

SampleMetadata ==
    {EmptyMap, MapPut(EmptyMap, "scanner", "fastscan"),
     MapPut(MapPut(EmptyMap, "scanner", "deepscan"), "interface_name", "wlan0")}

HostRecords ==
    {[IP |-> "10.0.0.1", Hostname |-> hn, OS |-> os, MAC |-> "aa:bb",
      PortSummary |-> <<>>, Ports |-> ports, NextHop |-> hop,
      NetworkName |-> net, InterfaceName |-> ifn, Tags |-> tags,
      Note |-> note, Metadata |-> md, LastSeen |-> seen, OnlineStatus |-> "online"] :
        hn \in {"", "web"}, os \in {"", "Linux 5.X"}, ports \in SamplePorts,
        hop \in {"", "10.0.0.254"}, net \in {"", "LAN"}, ifn \in {"", "eth0"},
        tags \in {<<>>, <<"lan", "core">>}, note \in {"", "rack 4"},
        md \in SampleMetadata, seen \in {0, 1}}

PayloadIdle ==
    /\ hRec = <<>>
    /\ hAfter = <<>>
    /\ hPayload = <<>>
    /\ hWire = <<>>
    /\ hDecoded = <<>>
    /\ hPc = "idle"

\* payload := h.ToRemoteHostPayload()
CallToRemoteHostPayload ==
    /\ hPc = "ready"
    /\ hPayload' = ToRemoteHostPayload(hRec)
    /\ hAfter' = ReceiverAfter(hRec)
    /\ hPc' = "converted"
    /\ UNCHANGED <<hRec, hWire, hDecoded>>

\* b, _ := json.Marshal(payload); json.Unmarshal(b, &decoded)
CallRoundTrip ==
    /\ hPc = "converted"
    /\ hWire' = MarshalHost(hPayload)
    /\ hDecoded' = UnmarshalHost(MarshalHost(hPayload))
    /\ hPc' = "decoded"
    /\ UNCHANGED <<hRec, hAfter, hPayload>>

\* func BuildRemotePayload(siteName, agentVersion string, hosts []HostRecord)
BuildRemotePayload(siteName, agentVersion, hosts) ==
    [SiteName |-> siteName, AgentVersion |-> agentVersion,
     Hosts |-> [i \in 1..Len(hosts) |-> ToRemoteHostPayload(hosts[i])]]

\* Mutant of shouldEmit: JSON echo needs a remote configuration.
shouldEmitRemoteOnly(o) == Enabled(o.Config)

\* func (o RemotePayloadOptions) shouldEmit() bool
shouldEmit(o) == o.PrintJSON \/ Enabled(o.Config)

NoEmission == [err |-> Nil, requests |-> <<>>, printed |-> <<>>]

\* Mutant of emit: a POST that failed is sent a second time.
emitRetry(o, payload, resp) ==
    IF ~shouldEmit(o) THEN NoEmission
    ELSE IF o.PrintJSON /\ ~JsonEncodable(payload)
    THEN [err |-> ErrMarshal, requests |-> <<>>, printed |-> <<>>]
    ELSE LET printed == IF o.PrintJSON THEN <<payload>> ELSE <<>>
         IN  IF Enabled(o.Config)
             THEN LET post == PostPayload(o.Config, payload, resp)
                  IN  [err |-> post.err,
                       requests |-> IF post.err # Nil THEN post.requests \o post.requests
                                    ELSE post.requests,
                       printed |-> printed]
             ELSE [err |-> Nil, requests |-> <<>>, printed |-> printed]

\* func (o RemotePayloadOptions) emit(payload RemotePayload) error: the
\* error returned, the requests made and the payloads printed to stdout
emit(o, payload, resp) ==
    IF ~shouldEmit(o) THEN NoEmission
    ELSE IF o.PrintJSON /\ ~JsonEncodable(payload)
    THEN [err |-> ErrMarshal, requests |-> <<>>, printed |-> <<>>]
    ELSE LET printed == IF o.PrintJSON THEN <<payload>> ELSE <<>>
         IN  IF Enabled(o.Config)
             THEN LET post == PostPayload(o.Config, payload, resp)
                  IN  [err |-> post.err, requests |-> post.requests,
                       printed |-> printed]
             ELSE [err |-> Nil, requests |-> <<>>, printed |-> printed]

\* Mutant of emitHosts: an empty host list is emitted like any other.
emitHostsEvenEmpty(hosts, opts, resp) ==
    IF ~shouldEmit(opts) THEN NoEmission
    ELSE LET siteName == IF opts.Config.SiteName = <<>> THEN opts.Config.SiteID
                         ELSE opts.Config.SiteName
             agentVersion == IF opts.Config.AgentVersion = "" THEN ScannerVersion
                             ELSE opts.Config.AgentVersion
         IN  emit(opts, BuildRemotePayload(siteName, agentVersion, hosts), resp)

\* func emitHosts(hosts []HostRecord, opts RemotePayloadOptions) error
emitHosts(hosts, opts, resp) ==
    IF ~shouldEmit(opts) THEN NoEmission
    ELSE IF Len(hosts) = 0 THEN NoEmission
    ELSE LET siteName == IF opts.Config.SiteName = <<>> THEN opts.Config.SiteID
                         ELSE opts.Config.SiteName
             agentVersion == IF opts.Config.AgentVersion = "" THEN ScannerVersion
                             ELSE opts.Config.AgentVersion
         IN  emit(opts, BuildRemotePayload(siteName, agentVersion, hosts), resp)

(***************************************************************************)
(* Direct calls of the emitter functions, on every configuration below.    *)
(***************************************************************************)
BaseURL == <<"https:", "/", "/", "ctrl.example.com", "/", "api">>

\* a controller address given without its scheme
BareAddress == <<"127.0.0.1", ":", "8080">>

ControllerURLs == {<<>>, BaseURL, BaseURL \o <<"/">>, BaseURL \o <<"/", "/">>, BareAddress}

SiteIDs == {<<>>, <<"site1">>, <<"..">>, <<".">>, <<"a", "/", "b">>, <<"site1", "/">>}

AgentIDs == {<<>>, <<"agent1">>, <<"..">>}

RemoteConfigs ==
    [ControllerURL : ControllerURLs, SiteID : SiteIDs, AgentID : AgentIDs,
     SiteName : {<<>>, <<"HQ">>}, AgentVersion : {"", "v1"}, Token : {"", "tok"}]

SampleHost(ip) ==
    [IP |-> ip, Hostname |-> "NoName", OS |-> "Unknown", MAC |-> "Unknown",
     PortSummary |-> <<"Unknown">>, Ports |-> <<>>, NextHop |-> "",
     NetworkName |-> "LAN", InterfaceName |-> "eth0", Tags |-> <<>>,
     Note |-> "", Metadata |-> MapPut(EmptyMap, "scanner", "fastscan"),
     LastSeen |-> 1, OnlineStatus |-> "online"]

SampleHostLists ==
    {<<>>, <<SampleHost("10.0.0.1")>>,
     <<SampleHost("10.0.0.1"), SampleHost("10.0.0.2")>>,
     <<[SampleHost("10.0.0.1") EXCEPT !.Metadata = MapPut(@, "probe", NoJSON)]>>}

RemoteIdle ==
    /\ rcfg = <<>>
    /\ rPrintJSON = FALSE
    /\ rHosts = <<>>
    /\ rCall = "none"
    /\ rRet = Nil
    /\ rResp = <<>>
    /\ rUrl = <<>>
    /\ rPc = "idle"

WorldIdle ==
    /\ netRequests = <<>>
    /\ stdoutJSON = <<>>

ROpts == [PrintJSON |-> rPrintJSON, Config |-> rcfg]

\* url, err := rc.endpoint()
CallEndpoint ==
    /\ rPc = "ready"
    /\ rCall' = "endpoint"
    /\ rUrl' = endpoint(rcfg).url
    /\ rRet' = endpoint(rcfg).err
    /\ rPc' = "done"
    /\ UNCHANGED <<rcfg, rPrintJSON, rHosts, rResp, netRequests, stdoutJSON>>

RemoteCallDone(name, r, resp) ==
    /\ rCall' = name
    /\ rRet' = r.err
    /\ rResp' = IF r.requests # <<>> THEN resp ELSE <<>>
    /\ netRequests' = netRequests \o r.requests
    /\ rPc' = "done"
    /\ UNCHANGED <<rcfg, rPrintJSON, rHosts, rUrl>>

\* err := rc.PostPayload(payload)
CallPostPayload ==
    /\ rPc = "ready"
    /\ \E resp \in Responses :
          RemoteCallDone("PostPayload",
              PostPayload(rcfg, BuildRemotePayload(<<"HQ">>, "v1", rHosts), resp), resp)
    /\ UNCHANGED stdoutJSON

\* err := rc.PostPayload(payload), the package built with the second remote.go
CallPostPayloadWithBody ==
    /\ rPc = "ready"
    /\ \E resp \in Responses :
          RemoteCallDone("PostPayloadWithBody",
              PostPayloadWithBody(rcfg, BuildRemotePayload(<<"HQ">>, "v1", rHosts), resp),
              resp)
    /\ UNCHANGED stdoutJSON

\* err := opts.emit(payload)
CallEmit ==
    /\ rPc = "ready"
    /\ \E resp \in Responses :
          LET r == emit(ROpts, BuildRemotePayload(<<"HQ">>, "v1", rHosts), resp)
          IN  /\ RemoteCallDone("emit", r, resp)
              /\ stdoutJSON' = stdoutJSON \o r.printed

\* err := emitHosts(hosts, opts)
CallEmitHosts ==
    /\ rPc = "ready"
    /\ \E resp \in Responses :
          LET r == emitHosts(rHosts, ROpts, resp)
          IN  /\ RemoteCallDone("emitHosts", r, resp)
              /\ stdoutJSON' = stdoutJSON \o r.printed

(***************************************************************************)
(* The hosts table (types.go: upsertHost, SaveHostsToDB; deep_scan.go:272). *)
(* The table is the sequence of its rows; the statement's ON CONFLICT      *)
(* clause decides whether a row is inserted or overwritten.                *)
(***************************************************************************)
FormatInt(n) ==
    CASE n = 53 -> "53"
      [] n = 80 -> "80"
      [] n = 123 -> "123"
      [] n = 161 -> "161"
      [] n = 443 -> "443"
      [] OTHER -> "0"

\* one entry of PortsSummary: "%d/%s", then " (service)", then " [state]"
SummaryPart(p) ==
    LET a == <<FormatInt(p.Port), "/">> \o p.Protocol
        b == IF p.Service # <<>> THEN a \o <<" ", "(">> \o p.Service \o <<")">> ELSE a
    IN  IF p.State # <<>> THEN b \o <<" ", "[">> \o p.State \o <<"]">> ELSE b

\* func (h HostRecord) PortsSummary() string
PortsSummary(h) ==
    IF h.PortSummary # <<>> THEN h.PortSummary
    ELSE IF Len(h.Ports) = 0 THEN <<"Unknown">>
    ELSE Join([i \in 1..Len(h.Ports) |-> SummaryPart(h.Ports[i])], <<",", " ">>)

\* host.LastSeen.Format("2006-01-02 15:04:05"): the text of a time
FormatSQLTime(t) == <<t>>

\* the defaulting at the top of upsertHost and the values bound to the
\* statement's ten parameters
RowOf(host, now) ==
    [ip |-> host.IP, name |-> host.Hostname, os_details |-> host.OS,
     mac_address |-> host.MAC, open_ports |-> PortsSummary(host),
     next_hop |-> host.NextHop,
     network_name |-> IF host.NetworkName = "" THEN "LAN" ELSE host.NetworkName,
     interface_name |-> host.InterfaceName,
     last_seen |-> FormatSQLTime(IF host.LastSeen = 0 THEN now ELSE host.LastSeen),
     online_status |-> IF host.OnlineStatus = "" THEN "online" ELSE host.OnlineStatus]

\* Mutant of ConflictRows: the conflict target is the ip column alone.
ConflictRowsIpOnly(table, row) == {i \in DOMAIN table : table[i].ip = row.ip}

\* ON CONFLICT(ip, interface_name): the rows the new row collides with
ConflictRows(table, row) ==
    {i \in DOMAIN table :
        table[i].ip = row.ip /\ table[i].interface_name = row.interface_name}

\* Mutant of ConflictUpdate: network_name is overwritten too.
ConflictUpdateAll(old, new) == new

\* DO UPDATE SET name, os_details, mac_address, open_ports, next_hop,
\* last_seen, online_status = excluded.*
ConflictUpdate(old, new) ==
    [old EXCEPT !.name = new.name, !.os_details = new.os_details,
                !.mac_address = new.mac_address, !.open_ports = new.open_ports,
                !.next_hop = new.next_hop, !.last_seen = new.last_seen,
                !.online_status = new.online_status]

\* INSERT INTO hosts (...) VALUES (...) ON CONFLICT(...) DO UPDATE SET ...
InsertOrUpdate(table, row) ==
    LET hit == ConflictRows(table, row)
    IN  IF hit = {} THEN Append(table, row)
        ELSE [i \in DOMAIN table |->
                 IF i \in hit THEN ConflictUpdate(table[i], row) ELSE table[i]]

ErrExec == <<"sql: statement failed">>
ErrOpen == <<"sql: open failed">>

\* func upsertHost(db *sql.DB, host HostRecord) error: the table afterwards
\* and the error; execOk is whether the database executed the statement.
upsertHost(table, host, now, execOk) ==
    IF execOk THEN [table |-> InsertOrUpdate(table, RowOf(host, now)), err |-> Nil]
    ELSE [table |-> table, err |-> ErrExec]

\* Mutant of MarkOfflineIfaces: the rows of the interfaces are deleted.
PurgeIfaces(table, ifaces) ==
    SelectSeq(table, LAMBDA r : r.interface_name \notin ifaces)

\* UPDATE hosts SET online_status = 'offline' WHERE interface_name = ?,
\* executed for every name in ifaces
MarkOfflineIfaces(table, ifaces) ==
    [i \in DOMAIN table |->
        IF table[i].interface_name \in ifaces
        THEN [table[i] EXCEPT !.online_status = "offline"] ELSE table[i]]

\* Mutant of MarkOfflineAll: the statement changes no row.
MarkOfflineNone(table) == table

\* UPDATE hosts SET online_status = 'offline'
MarkOfflineAll(table) ==
    [i \in DOMAIN table |-> [table[i] EXCEPT !.online_status = "offline"]]

RECURSIVE UpsertEach(_, _, _, _, _)
\* for _, host := range hosts { if err := upsertHost(db, host); err != nil
\* { return err } }: failAt is the index of the upsert that fails, 0 if none
UpsertEach(table, hosts, i, now, failAt) ==
    IF i > Len(hosts) THEN [table |-> table, err |-> Nil]
    ELSE LET r == upsertHost(table, hosts[i], now, i # failAt)
         IN  IF r.err # Nil THEN r
             ELSE UpsertEach(r.table, hosts, i + 1, now, failAt)

\* func SaveHostsToDB(dbPath string, hosts []HostRecord) error.  openOk,
\* markFails (the interfaces whose marking statement fails, its error being
\* discarded) and failAt are what the database does.
SaveHostsToDB(table, hosts, now, openOk, markFails, failAt) ==
    IF Len(hosts) = 0 THEN [table |-> table, err |-> Nil, marked |-> {}]
    ELSE IF ~openOk THEN [table |-> table, err |-> ErrOpen, marked |-> {}]
    ELSE LET ifaces == {hosts[i].InterfaceName : i \in 1..Len(hosts)} \ {""}
             marked == ifaces \ markFails
             r == UpsertEach(MarkOfflineIfaces(table, marked), hosts, 1, now, failAt)
         IN  [table |-> r.table, err |-> r.err, marked |-> marked]

(***************************************************************************)
(* Direct calls of upsertHost with varying records.                        *)
(***************************************************************************)
HttpPort == [Port |-> 80, Protocol |-> <<"tcp">>, Service |-> <<"http">>,
             State |-> <<"open">>]

UpsertArgs ==
    {[IP |-> "10.0.0.1", Hostname |-> n, OS |-> "Linux", MAC |-> "Unknown",
      PortSummary |-> pp[1], Ports |-> pp[2], NextHop |-> "",
      NetworkName |-> nw, InterfaceName |-> ifc, Tags |-> <<>>, Note |-> "",
      Metadata |-> EmptyMap, LastSeen |-> 0, OnlineStatus |-> st] :
        n \in {"web", "db"}, nw \in {"", "dmz"}, ifc \in {"eth0", "eth1"},
        st \in {"", "offline"},
        pp \in {<< <<>>, <<HttpPort>> >>, << <<"Unknown">>, <<>> >>}}

KeyOf(host) == <<host.IP, host.InterfaceName>>

UpsertKeys == {KeyOf(h) : h \in UpsertArgs}

NoCall == [called |-> FALSE]

DbIdle ==
    /\ hostsTable = <<>>
    /\ externalNetworks = <<>>
    /\ clock = 0

UpsertIdle ==
    /\ uCalls = 0
    /\ uFirst = <<>>
    /\ uLast = <<>>
    /\ uPc = "idle"

\* err := upsertHost(db, host)
CallUpsert ==
    /\ uPc = "ready"
    /\ uCalls < MaxUpserts
    /\ \E host \in UpsertArgs, execOk \in BOOLEAN :
          LET r == upsertHost(hostsTable, host, clock + 1, execOk)
              k == KeyOf(host)
          IN  /\ hostsTable' = r.table
              /\ uLast' = IF execOk
                          THEN [uLast EXCEPT ![k] = [called |-> TRUE, host |-> host,
                                                     now |-> clock + 1]]
                          ELSE uLast
              /\ uFirst' = IF execOk /\ ~uFirst[k].called
                           THEN [uFirst EXCEPT ![k] = [called |-> TRUE, host |-> host,
                                                       now |-> clock + 1]]
                           ELSE uFirst
    /\ clock' = clock + 1
    /\ uCalls' = uCalls + 1
    /\ UNCHANGED <<uPc, externalNetworks>>

(***************************************************************************)
(* The network the scanner runs in: what utils.GetAllInterfaces, nmap -sn, *)
(* reverse DNS, nbtscan and nmap -O answer.                                *)
(***************************************************************************)
Iface(name, subnet) == [Name |-> name, Subnet |-> subnet]

Interfaces ==
    << Iface("eth0", "10.0.0.0/24"), Iface("eth1", "10.0.1.0/24"),
       Iface("eth2", "10.0.2.0/24") >>

\* a host with a wired and a wireless interface on the same subnet
DualHomed == << Iface("eth0", "10.0.0.0/24"), Iface("wlan0", "10.0.0.0/24") >>

\* interfaces = []utils.InterfaceInfo{{Name: "unknown", Subnet: "192.168.2.0/24"}}
FallbackInterfaces == << Iface("unknown", "192.168.2.0/24") >>

\* the hosts that are up on a subnet, in the order of nmap's report
SubnetHosts(subnet) ==
    CASE subnet = "10.0.0.0/24" -> <<"10.0.0.1">>
      [] subnet = "10.0.1.0/24" -> <<"10.0.1.1">>
      [] OTHER -> <<>>

\* the name nmap -sn reports for a host ("NoName" for a bare address)
SweepName(ip) == IF ip = "10.0.0.1" THEN "web" ELSE "NoName"

\* net.LookupAddr(ip): the first name, "" when the lookup fails
ReverseDNS(ip) == IF ip = "10.0.0.9" THEN "db.lan" ELSE ""

\* nbtscan's name for ip, "" when there is none
NetBIOSName(ip) == IF ip = "10.0.1.1" THEN "PRINTER" ELSE ""

\* a name as net.LookupAddr returns it: the text and whether a "." ends it
Fqdn(name, dot) == [name |-> name, dot |-> dot]

\* strings.TrimSuffix(names[0], ".")
TrimSuffixDot(n) == n.name

\* names, err := net.LookupAddr(ip) for the hosts of the model
LookupAddr(ip) ==
    IF ReverseDNS(ip) = "" THEN [err |-> TRUE, names |-> <<>>]
    ELSE [err |-> FALSE, names |-> <<Fqdn(ReverseDNS(ip), TRUE)>>]

\* out, err := exec.Command("nbtscan", ip).Output() for the hosts of the
\* model: the lines of the output as their fields
Nbtscan(ip) ==
    IF NetBIOSName(ip) = "" THEN [err |-> FALSE, lines |-> <<>>]
    ELSE [err |-> FALSE, lines |-> <<<<ip, NetBIOSName(ip), "<server>">>>>]

\* getHostName on the answer of net.LookupAddr
getHostNameOf(lookup) ==
    IF lookup.err \/ Len(lookup.names) = 0 THEN "NoName"
    ELSE TrimSuffixDot(lookup.names[1])

RECURSIVE NbtName(_, _, _)
\* for _, line := range lines { fields := strings.Fields(line); if
\* len(fields) >= 2 && fields[0] == ip { return fields[1] } }; return ""
NbtName(lines, i, ip) ==
    IF i > Len(lines) THEN ""
    ELSE IF Len(lines[i]) >= 2 /\ lines[i][1] = ip THEN lines[i][2]
    ELSE NbtName(lines, i + 1, ip)

\* getNetBIOSName on the answer of nbtscan
getNetBIOSNameOf(ip, nbt) == IF nbt.err THEN "" ELSE NbtName(nbt.lines, 1, ip)

\* Mutant of bestHostNameOf: NetBIOS is asked before reverse DNS.
bestHostNameNetBIOSFirst(ip, nmapName, lookup, nbt) ==
    IF nmapName # "" /\ nmapName # "NoName"
    THEN [name |-> nmapName, calls |-> <<>>]
    ELSE IF getNetBIOSNameOf(ip, nbt) # ""
    THEN [name |-> getNetBIOSNameOf(ip, nbt), calls |-> <<"nbtscan">>]
    ELSE IF getHostNameOf(lookup) # "" /\ getHostNameOf(lookup) # "NoName"
    THEN [name |-> getHostNameOf(lookup), calls |-> <<"nbtscan", "LookupAddr">>]
    ELSE [name |-> "NoName", calls |-> <<"nbtscan", "LookupAddr">>]

\* bestHostName on the answers of its two lookups: the name it returns and
\* the lookups it made, in order
bestHostNameOf(ip, nmapName, lookup, nbt) ==
    IF nmapName # "" /\ nmapName # "NoName"
    THEN [name |-> nmapName, calls |-> <<>>]
    ELSE IF getHostNameOf(lookup) # "" /\ getHostNameOf(lookup) # "NoName"
    THEN [name |-> getHostNameOf(lookup), calls |-> <<"LookupAddr">>]
    ELSE IF getNetBIOSNameOf(ip, nbt) # ""
    THEN [name |-> getNetBIOSNameOf(ip, nbt), calls |-> <<"LookupAddr", "nbtscan">>]
    ELSE [name |-> "NoName", calls |-> <<"LookupAddr", "nbtscan">>]

\* func getHostName(ip string) string
getHostName(ip) == getHostNameOf(LookupAddr(ip))

\* func bestHostName(ip string, nmapName string) string
bestHostName(ip, nmapName) ==
    bestHostNameOf(ip, nmapName, LookupAddr(ip), Nbtscan(ip)).name

RECURSIVE SubSeqs(_)
\* the subsequences of a sequence: the hosts that answer a sweep
SubSeqs(q) ==
    IF q = <<>> THEN {<<>>}
    ELSE LET rest == SubSeqs(Tail(q))
         IN  rest \cup {<<Head(q)>> \o r : r \in rest}

Reverse(q) == [i \in 1..Len(q) |-> q[Len(q) + 1 - i]]

\* func discoverLiveHosts(subnet string) ([]HostInfo, error): the answers
\* nmap can give, hosts in report order
DiscoverOutcomes(subnet) ==
    {[ok |-> FALSE, hosts |-> <<>>]}
    \cup {[ok |-> TRUE, hosts |-> h] : h \in SubSeqs(SubnetHosts(subnet))}

\* func runNmap(subnet string) (map[string]string, error), as the caller's
\* range over the map sees it: the hosts in either order
RunNmapOutcomes(subnet) ==
    DiscoverOutcomes(subnet)
    \cup {[ok |-> TRUE, hosts |-> Reverse(h)] : h \in SubSeqs(SubnetHosts(subnet))}

\* the Ports: field and OS guess nmap -O writes for a host
ProbePortsField(ip) ==
    IF ip = "10.0.0.1"
    THEN RenderField(<<Entry("80", "open", "tcp", "http", FALSE),
                      Entry("443", "closed", "tcp", "https", FALSE)>>)
    ELSE RenderField(<<Entry("53", "filtered", "tcp", "", FALSE)>>)

ProbeOS(ip) == IF ip = "10.0.0.1" THEN "Linux 5.X" ELSE ""

\* Mutant of scanAllTcp: a failed probe still reports the scratch file.
scanAllTcpStale(ip, probeOk, content) ==
    [ports |-> parseNmapPorts(ProbePortsField(ip)), os |-> ProbeOS(ip)]

\* func scanAllTcp(ip string, logProgress io.Writer) (PortDetails, string),
\* from the return of cmd.Run(): probeOk is whether nmap exited without
\* error, content is what the scratch file holds when it is opened.  A
\* failed nmap or a file that cannot be opened gives "Unknown", "Unknown";
\* a file without a host line matches neither expression and leaves
\* ports and osInfo at their initial values.
scanAllTcp(ip, probeOk, content) ==
    IF ~probeOk \/ content = "none"
    THEN [ports |-> [Summary |-> <<"Unknown">>, Ports |-> <<>>], os |-> "Unknown"]
    ELSE IF content = "empty"
    THEN [ports |-> [Summary |-> <<"Unknown">>, Ports |-> <<>>], os |-> ""]
    ELSE [ports |-> parseNmapPorts(ProbePortsField(ip)), os |-> ProbeOS(ip)]

\* func getMacAddress(ip string) string: the neighbor table
getMacAddress(ip) == IF ip = "10.0.0.1" THEN "aa:bb:cc:00:00:01" ELSE "Unknown"

\* status := utils.PingHost(ip): what the liveness re-check can report
PingStatuses == {"online", "offline"}

(***************************************************************************)
(* FastScan / fastScanCore (fast_scan.go) and DeepScan (deep_scan.go), one *)
(* call at a time; the steps of a call are the actions below.              *)
(***************************************************************************)
ErrIfaces == <<"failed to detect network interfaces">>

\* record := HostRecord{...} in fastScanCore
FastRecord(ip, name, iface, now) ==
    [IP |-> ip, Hostname |-> name, OS |-> "Unknown", MAC |-> "Unknown",
     PortSummary |-> <<"Unknown">>, Ports |-> <<>>, NextHop |-> gateway,
     NetworkName |-> "LAN", InterfaceName |-> iface.Name, Tags |-> <<>>,
     Note |-> "",
     Metadata |->
        LET m == MapPut(MapPut(EmptyMap, "scanner", "fastscan"), "subnet", iface.Subnet)
        IN  IF gateway # "" THEN MapPut(m, "gateway_ip", gateway) ELSE m,
     LastSeen |-> now, OnlineStatus |-> "online"]

\* host.InterfaceName = iface.Name; hostInfos = append(hostInfos, host)
DeepHostInfo(ip, iface) == [IP |-> ip, Name |-> SweepName(ip), InterfaceName |-> iface.Name]

\* record := HostRecord{...} in DeepScan's host task
DeepRecord(host, scan, status, now) ==
        [IP |-> host.IP, Hostname |-> bestHostName(host.IP, host.Name),
         OS |-> scan.os, MAC |-> getMacAddress(host.IP),
         PortSummary |-> scan.ports.Summary, Ports |-> scan.ports.Ports,
         NextHop |-> "", NetworkName |-> "LAN",
         InterfaceName |-> host.InterfaceName, Tags |-> <<>>, Note |-> "",
         Metadata |-> MapPut(EmptyMap, "scanner", "deepscan"),
         LastSeen |-> now, OnlineStatus |-> status]

\* DeepScan prints through io.MultiWriter(lf, os.Stdout), which stops at the
\* first writer that fails: without a log file nothing reaches stdout.
\* fastScanCore's logf prints to stdout and, if there is one, to the file.
Reaches(f, created) == f = "FastScan" \/ created

LogEntry(kind, what, written) == [kind |-> kind, what |-> what, written |-> written]

\* a line RunRemoteAgent prints about run n
AgentLine(kind, n) == [kind |-> kind, run |-> n]

\* logFile := fmt.Sprintf("/config/logs/nmap_tcp_%s.log",
\* strings.ReplaceAll(ip, ".", "_")): the scratch file of a probe
ScratchFile(ip) ==
    <<"/config/logs/nmap_tcp_",
      CASE ip = "10.0.0.1" -> "10_0_0_1"
        [] ip = "10.0.0.9" -> "10_0_0_9"
        [] ip = "10.0.1.1" -> "10_0_1_1"
        [] OTHER -> "other",
      ".log">>

\* the scratch files of the hosts a sweep can report
ScratchFiles == {ScratchFile(ip) : ip \in {"10.0.0.1", "10.0.1.1"}}

\* no probe has run yet: /config/logs holds no scratch file
NoScratch == [f \in ScratchFiles |-> "none"]

CycleIdle ==
    /\ fn = "none"
    /\ logCreated = FALSE
    /\ scanOpts = <<>>
    /\ cpc = "idle"
    /\ interfaces = <<>>
    /\ ifIdx = 0
    /\ swept = <<>>
    /\ discovered = <<>>
    /\ progressLog = <<>>
    /\ db = "nil"
    /\ markedScope = {}
    /\ tpc = <<>>
    /\ tprobe = <<>>
    /\ scratch = NoScratch
    /\ tscan = <<>>
    /\ trec = <<>>
    /\ ttmp = <<>>
    /\ batchMu = 0
    /\ remoteBatch = <<>>
    /\ joined = FALSE
    /\ ret = Nil
    /\ cycles = 0
    /\ prevTable = <<>>
    /\ gateway = ""

\* what a step of a scan leaves alone outside the scan
CycleFrame == UNCHANGED <<parseVars, payloadVars, cliVars, nameVars, sweepVars, remoteVars, upsertVars, agentVars>>

\* Entry of FastScan(o) or DeepScan(o): the locals are fresh, the progress
\* log is created anew (os.Create truncates it).
StartCycle(f, o) ==
    /\ fn' = f
    /\ logCreated' = FALSE
    /\ scanOpts' = o
    /\ cpc' = "interfaces"
    /\ interfaces' = <<>>
    /\ ifIdx' = 0
    /\ swept' = <<>>
    /\ discovered' = <<>>
    /\ progressLog' = <<>>
    /\ db' = "nil"
    /\ markedScope' = {}
    /\ tpc' = <<>>
    /\ tprobe' = <<>>
    /\ scratch' = scratch
    /\ tscan' = <<>>
    /\ trec' = <<>>
    /\ ttmp' = <<>>
    /\ batchMu' = 0
    /\ remoteBatch' = <<>>
    /\ joined' = FALSE
    /\ ret' = Nil
    /\ cycles' = cycles + 1
    /\ prevTable' = hostsTable
    /\ clock' = clock + 1
    /\ netRequests' = <<>>
    /\ stdoutJSON' = <<>>
    /\ gateway' = ""
    /\ UNCHANGED <<hostsTable, externalNetworks>>

\* the stage that follows the sweep loop
AfterSweeps ==
    IF fn = "FastScan" THEN (IF scanOpts.SkipDB THEN "emit" ELSE "persist")
    ELSE (IF scanOpts.SkipDB THEN "spawn" ELSE "opendb")

\* what getDefaultGateway() finds on the default route, "" when it fails
Gateways == {"", "10.0.0.254"}

\* lf, _ := os.Create(logFile) and interfaces, err :=
\* utils.GetAllInterfaces(): fastScanCore returns the error, DeepScan falls
\* back to the default subnet; fastScanCore then asks for the default gateway
GetInterfacesOf(found) ==
    /\ cpc = "interfaces"
    /\ \E ok \in BOOLEAN, gw \in Gateways, created \in BOOLEAN :
          /\ logCreated' = created
          /\ IF ok \/ fn = "DeepScan"
             THEN /\ interfaces' = IF ok THEN found ELSE FallbackInterfaces
                  /\ ifIdx' = 1
                  /\ cpc' = "sweep"
                  /\ gateway' = IF fn = "FastScan" THEN gw ELSE gateway
                  /\ ret' = ret
             ELSE /\ ret' = ErrIfaces
                  /\ cpc' = "returned"
                  /\ UNCHANGED <<interfaces, ifIdx, gateway>>
    /\ UNCHANGED <<fn, scanOpts, swept, discovered, progressLog, db,
                   markedScope, tpc, tprobe, scratch, tscan, trec, ttmp, batchMu, remoteBatch, joined,
                   cycles, prevTable, hostsTable, externalNetworks, clock, netRequests,
                   stdoutJSON>>
    /\ CycleFrame

\* the interfaces of the host: eth0, eth1 and eth2 on three subnets
GetInterfaces == GetInterfacesOf(Interfaces)

\* the interfaces of a host that is on one subnet by wire and by radio
GetInterfacesDual == GetInterfacesOf(DualHomed)

\* one iteration of "for _, iface := range interfaces" in fastScanCore or
\* DeepScan: the sweep of one subnet, its log entry on failure, its hosts
SweepSubnet ==
    /\ cpc = "sweep"
    /\ ifIdx <= Len(interfaces)
    /\ LET iface == interfaces[ifIdx]
           outcomes == IF fn = "FastScan" THEN RunNmapOutcomes(iface.Subnet)
                       ELSE DiscoverOutcomes(iface.Subnet)
       IN  \E outcome \in outcomes :
              /\ swept' = Append(swept, [iface |-> iface, ok |-> outcome.ok,
                                         hosts |-> outcome.hosts])
              /\ progressLog' =
                    IF outcome.ok THEN progressLog
                    ELSE Append(progressLog, LogEntry("discover_failed", iface.Subnet,
                                                      Reaches(fn, logCreated)))
              /\ discovered' =
                    discovered \o
                    [i \in 1..Len(outcome.hosts) |->
                        IF fn = "FastScan"
                        THEN FastRecord(outcome.hosts[i], SweepName(outcome.hosts[i]),
                                        iface, clock)
                        ELSE DeepHostInfo(outcome.hosts[i], iface)]
              /\ ifIdx' = ifIdx + 1
              /\ cpc' = IF ifIdx = Len(interfaces) THEN AfterSweeps ELSE "sweep"
    /\ UNCHANGED <<fn, logCreated, scanOpts, interfaces, db, markedScope, tpc,
                   tprobe, scratch, tscan, trec, ttmp, batchMu, remoteBatch, joined, ret, cycles,
                   prevTable, gateway, hostsTable, externalNetworks, clock, netRequests,
                   stdoutJSON>>
    /\ CycleFrame

\* what curl prints for the lookup URLs: nothing, or the public address
CurlAnswers == {"", "203.0.113.7"}

\* func updateExternalIPInDB(dbPath string): INSERT OR IGNORE the address,
\* then UPDATE its last_seen; nothing without an address, and nothing when
\* the database does not execute the statements (their errors are dropped)
updateExternalIPInDB(ext, ip, execOk, now) ==
    IF ip = "" \/ ~execOk THEN ext
    ELSE LET hit == {i \in DOMAIN ext : ext[i].public_ip = ip}
             row == [public_ip |-> ip, last_seen |-> FormatSQLTime(now)]
         IN  IF hit = {} THEN Append(ext, row)
             ELSE [i \in DOMAIN ext |-> IF i \in hit THEN row ELSE ext[i]]

\* FastScan: if !opts.SkipDB { SaveHostsToDB(...); updateExternalIPInDB(...) }
FastPersist ==
    /\ cpc = "persist"
    /\ LET names == {discovered[i].InterfaceName : i \in 1..Len(discovered)}
       IN  \E openOk \in BOOLEAN, markFails \in SUBSET names,
              failAt \in 0..Len(discovered), ip \in CurlAnswers, extOk \in BOOLEAN :
              LET r == SaveHostsToDB(hostsTable, discovered, clock, openOk,
                                     markFails, failAt)
              IN  /\ hostsTable' = r.table
                  /\ markedScope' = r.marked
                  /\ ret' = r.err
                  /\ cpc' = IF r.err # Nil THEN "returned" ELSE "emit"
                  /\ externalNetworks' =
                        IF r.err # Nil THEN externalNetworks
                        ELSE updateExternalIPInDB(externalNetworks, ip, extOk, clock)
    /\ UNCHANGED <<fn, logCreated, scanOpts, interfaces, ifIdx, swept,
                   discovered, progressLog, db, tpc, tprobe, scratch, tscan, trec, ttmp, batchMu,
                   remoteBatch, joined, cycles, prevTable, gateway, clock,
                   netRequests, stdoutJSON>>
    /\ CycleFrame

\* Mutant of AfterOpen: without a database DeepScan goes on to its tasks.
AfterOpenDegraded(openOk) == "spawn"

\* db, err = sql.Open(...); if err != nil { ...; return err }
AfterOpen(openOk) == IF openOk THEN "spawn" ELSE "returned"

\* DeepScan: if !opts.SkipDB { sql.Open; UPDATE hosts SET online_status =
\* 'offline' }: an open failure returns, a marking failure is logged
DeepOpenDB ==
    /\ cpc = "opendb"
    /\ \E openOk \in BOOLEAN, markOk \in BOOLEAN :
          IF ~openOk
          THEN /\ progressLog' = Append(progressLog, LogEntry("open_failed", "db",
                                                     Reaches(fn, logCreated)))
               /\ ret' = ErrOpen
               /\ cpc' = AfterOpen(openOk)
               /\ UNCHANGED <<db, markedScope, hostsTable>>
          ELSE /\ db' = "open"
               /\ hostsTable' = IF markOk THEN MarkOfflineAll(hostsTable) ELSE hostsTable
               /\ markedScope' = IF markOk THEN {"all"} ELSE {}
               /\ progressLog' =
                     IF markOk THEN progressLog
                     ELSE Append(progressLog, LogEntry("mark_failed", "db",
                                                      Reaches(fn, logCreated)))
               /\ cpc' = AfterOpen(openOk)
               /\ ret' = ret
    /\ UNCHANGED <<fn, logCreated, scanOpts, interfaces, ifIdx, swept,
                   discovered, tpc, tprobe, scratch, tscan, trec, ttmp, batchMu, remoteBatch, joined,
                   cycles, prevTable, gateway, clock, netRequests, stdoutJSON,
                   externalNetworks>>
    /\ CycleFrame

\* for idx, host := range hostInfos { wg.Add(1); go func(...) {...}(idx, host) }
DeepSpawn ==
    /\ cpc = "spawn"
    /\ tpc' = [i \in 1..Len(discovered) |-> "scan"]
    /\ tprobe' = [i \in 1..Len(discovered) |-> "none"]
    /\ tscan' = [i \in 1..Len(discovered) |-> <<>>]
    /\ trec' = [i \in 1..Len(discovered) |-> <<>>]
    /\ ttmp' = [i \in 1..Len(discovered) |-> <<>>]
    /\ cpc' = "wait"
    /\ UNCHANGED <<fn, logCreated, scanOpts, interfaces, ifIdx, swept,
                   discovered, progressLog, db, markedScope, batchMu, scratch,
                   remoteBatch, joined, ret, cycles, prevTable, gateway,
                   hostsTable, externalNetworks, clock, netRequests, stdoutJSON>>
    /\ CycleFrame

TaskFrame ==
    /\ UNCHANGED <<fn, logCreated, scanOpts, cpc, interfaces, ifIdx, swept,
                   discovered, db, markedScope, joined, ret, cycles,
                   prevTable, gateway, clock, netRequests, stdoutJSON>>
    /\ CycleFrame

\* elapsed := time.Since(startTime) at the moment a task has its results,
\* in seconds: an odd number, so that the division by idx+1 rounds
ElapsedValues == {7}

\* hostsLeft := total - (idx + 1); estLeft = (elapsed / time.Duration(idx+1))
\* * time.Duration(hostsLeft); "Progress: %d/%d hosts, elapsed: %s,
\* estimated left: %s" with idx+1, total, elapsed, estLeft.  n is idx + 1.
ProgressLine(n, total, elapsed) ==
    [done |-> n, total |-> total, left |-> total - n, elapsed |-> elapsed,
     est |-> (elapsed \div n) * (total - n)]

\* Mutant of AfterRecord: the task skips the store.
AfterRecordNoStore(handle) == "lock"

\* if db != nil { upsertHost(db, record) } and then batchMu.Lock()
AfterRecord(handle) == IF handle = "nil" THEN "lock" ELSE "upsert"

\* a host task from its start to the moment its nmap process has opened
\* the -oG file: bestHostName, the "Scanning host" line, cmd.Run() started;
\* nmap creates the file or truncates the one that is there
TaskNmapStart(i) ==
    /\ cpc = "wait"
    /\ tpc[i] = "scan"
    /\ scratch' = [scratch EXCEPT ![ScratchFile(discovered[i].IP)] = "empty"]
    /\ tpc' = [tpc EXCEPT ![i] = "nmap"]
    /\ UNCHANGED <<tprobe, tscan, trec, ttmp, batchMu, remoteBatch, hostsTable,
                   progressLog, externalNetworks>>
    /\ TaskFrame

\* cmd.Run() returns: without error once nmap has written the host line
\* to its file, and scanAllTcp goes on to open the file; with an error,
\* before nmap opened the file or after, and scanAllTcp returns at once
TaskNmapExit(i) ==
    /\ cpc = "wait"
    /\ tpc[i] \in {"scan", "nmap"}
    /\ \E probeOk \in BOOLEAN :
          /\ probeOk => tpc[i] = "nmap"
          /\ scratch' = IF probeOk
                        THEN [scratch EXCEPT ![ScratchFile(discovered[i].IP)] = "full"]
                        ELSE scratch
          /\ tprobe' = [tprobe EXCEPT ![i] = IF probeOk THEN "ok" ELSE "failed"]
          /\ tscan' = IF probeOk THEN tscan
                      ELSE [tscan EXCEPT ![i] =
                               scanAllTcp(discovered[i].IP, FALSE,
                                          scratch[ScratchFile(discovered[i].IP)])]
          /\ tpc' = [tpc EXCEPT ![i] = IF probeOk THEN "read" ELSE "ping"]
    /\ UNCHANGED <<trec, ttmp, batchMu, remoteBatch, hostsTable, progressLog,
                   externalNetworks>>
    /\ TaskFrame

\* file, err := os.Open(logFile): what scanAllTcp has to read, nothing
\* ("none") when the open fails
Opened(opened, content) == IF opened THEN content ELSE "none"

\* the rest of scanAllTcp after a successful nmap: os.Open(logFile), which
\* can fail, and the scan of the lines the file holds at that moment; the
\* task then calls getMacAddress and utils.PingHost
TaskRead(i) ==
    /\ cpc = "wait"
    /\ tpc[i] = "read"
    /\ \E opened \in BOOLEAN :
          /\ tscan' = [tscan EXCEPT ![i] =
                          scanAllTcp(discovered[i].IP, TRUE,
                                     Opened(opened,
                                            scratch[ScratchFile(discovered[i].IP)]))]
          /\ tprobe' = [tprobe EXCEPT ![i] = IF opened THEN "ok" ELSE "unreadable"]
    /\ tpc' = [tpc EXCEPT ![i] = "ping"]
    /\ UNCHANGED <<scratch, trec, ttmp, batchMu, remoteBatch, hostsTable,
                   progressLog, externalNetworks>>
    /\ TaskFrame

\* utils.PingHost returns and the task goes on to its record: the progress
\* line, record := HostRecord{...}; with a database the task then enters
\* upsertHost
TaskScan(i) ==
    /\ cpc = "wait"
    /\ tpc[i] = "ping"
    /\ \E status \in PingStatuses, elapsed \in ElapsedValues :
          LET record == DeepRecord(discovered[i], tscan[i], status, clock)
          IN  /\ trec' = [trec EXCEPT ![i] = record]
              /\ progressLog' =
                    Append(progressLog,
                           LogEntry("progress", ProgressLine(i, Len(discovered), elapsed),
                                    Reaches(fn, logCreated)))
    /\ tpc' = [tpc EXCEPT ![i] = AfterRecord(db)]
    /\ UNCHANGED <<tprobe, scratch, tscan, ttmp, batchMu, remoteBatch, hostsTable,
                   externalNetworks>>
    /\ TaskFrame

\* cmd.Run() of the task's nmap process never returns: the task stays in
\* scanAllTcp and never calls wg.Done()
TaskHang(i) ==
    /\ cpc = "wait"
    /\ tpc[i] = "nmap"
    /\ tpc' = [tpc EXCEPT ![i] = "hung"]
    /\ tprobe' = [tprobe EXCEPT ![i] = "hung"]
    /\ UNCHANGED <<scratch, tscan, trec, ttmp, batchMu, remoteBatch, hostsTable,
                   progressLog, externalNetworks>>
    /\ TaskFrame

\* the statement of upsertHost(db, record) is executed and the call
\* returns: if err != nil { fmt.Fprintf(logProgress, "Update failed ...") }
TaskUpsert(i) ==
    /\ cpc = "wait"
    /\ tpc[i] = "upsert"
    /\ \E execOk \in BOOLEAN :
          LET r == upsertHost(hostsTable, trec[i], clock, execOk)
          IN  /\ hostsTable' = r.table
              /\ progressLog' =
                    IF r.err = Nil THEN progressLog
                    ELSE Append(progressLog, LogEntry("update_failed", trec[i].IP,
                                                    Reaches(fn, logCreated)))
    /\ tpc' = [tpc EXCEPT ![i] = "lock"]
    /\ UNCHANGED <<tprobe, scratch, tscan, trec, ttmp, batchMu, remoteBatch, externalNetworks>>
    /\ TaskFrame

\* Mutant of LockFree: the mutex is not taken.
LockIgnored(mu) == TRUE

\* batchMu.Lock() returns only when no task holds the mutex
LockFree(mu) == mu = 0

\* batchMu.Lock(), then remoteBatch = append(remoteBatch, record) as far as
\* its read of the slice
TaskLock(i) ==
    /\ cpc = "wait"
    /\ tpc[i] = "lock"
    /\ LockFree(batchMu)
    /\ batchMu' = i
    /\ ttmp' = [ttmp EXCEPT ![i] = remoteBatch]
    /\ tpc' = [tpc EXCEPT ![i] = "write"]
    /\ UNCHANGED <<tprobe, scratch, tscan, trec, remoteBatch, progressLog, hostsTable, externalNetworks>>
    /\ TaskFrame

\* the write of the appended slice, then batchMu.Unlock()
TaskWrite(i) ==
    /\ cpc = "wait"
    /\ tpc[i] = "write"
    /\ remoteBatch' = Append(ttmp[i], trec[i])
    /\ batchMu' = 0
    /\ tpc' = [tpc EXCEPT ![i] = "unlocked"]
    /\ UNCHANGED <<tprobe, scratch, tscan, trec, ttmp, progressLog, hostsTable, externalNetworks>>
    /\ TaskFrame

\* the "Host ... scanned in" line, the return of the task's function and
\* its deferred wg.Done()
TaskDone(i) ==
    /\ cpc = "wait"
    /\ tpc[i] = "unlocked"
    /\ tpc' = [tpc EXCEPT ![i] = "done"]
    /\ UNCHANGED <<tprobe, scratch, tscan, trec, ttmp, batchMu, remoteBatch, progressLog,
                   hostsTable, externalNetworks>>
    /\ TaskFrame

\* Mutant of AllTasksDone: the barrier does not wait for a hung task.
AllTasksSettled(pcs) == \A i \in DOMAIN pcs : pcs[i] \in {"done", "hung"}

\* wg.Wait() returns when every task has called wg.Done()
AllTasksDone(pcs) == \A i \in DOMAIN pcs : pcs[i] = "done"

\* wg.Wait()
DeepJoin ==
    /\ cpc = "wait"
    /\ AllTasksDone(tpc)
    /\ joined' = TRUE
    /\ cpc' = "emit"
    /\ UNCHANGED <<fn, logCreated, scanOpts, interfaces, ifIdx, swept,
                   discovered, progressLog, db, markedScope, tpc, tprobe, scratch, tscan, trec, ttmp,
                   batchMu, remoteBatch, ret, cycles, prevTable, gateway,
                   hostsTable, externalNetworks, clock, netRequests, stdoutJSON>>
    /\ CycleFrame

\* err := emitHosts(hosts, opts.Remote); return err
EmitAndReturn ==
    /\ cpc = "emit"
    /\ \E resp \in Responses :
          LET r == emitHosts(IF fn = "FastScan" THEN discovered ELSE remoteBatch,
                             scanOpts.Remote, resp)
          IN  /\ netRequests' = netRequests \o r.requests
              /\ stdoutJSON' = stdoutJSON \o r.printed
              /\ ret' = r.err
    /\ cpc' = "returned"
    /\ UNCHANGED <<fn, logCreated, scanOpts, interfaces, ifIdx, swept,
                   discovered, progressLog, db, markedScope, tpc, tprobe, scratch, tscan, trec, ttmp,
                   batchMu, remoteBatch, joined, cycles, prevTable, gateway,
                   hostsTable, externalNetworks, clock>>
    /\ CycleFrame

(***************************************************************************)
(* The fastscan and deepscan commands: one call of FastScan(o) or          *)
(* DeepScan(o) on the hosts table that earlier runs left.                  *)
(***************************************************************************)
FullConfig ==
    [ControllerURL |-> BaseURL, SiteID |-> <<"site1">>, AgentID |-> <<"agent1">>,
     SiteName |-> <<>>, AgentVersion |-> "", Token |-> "tok"]

EmptyConfig ==
    [ControllerURL |-> <<>>, SiteID |-> <<>>, AgentID |-> <<>>,
     SiteName |-> <<>>, AgentVersion |-> "", Token |-> ""]

DirectOptions ==
    [SkipDB : BOOLEAN,
     Remote : {[PrintJSON |-> FALSE, Config |-> EmptyConfig],
               [PrintJSON |-> TRUE, Config |-> FullConfig]}]

\* hosts that were up on eth0 when an earlier fast scan ran; the second has
\* left the network since
PriorHosts == <<"10.0.0.1", "10.0.0.9">>

\* a table earlier runs left: a fast scan that saw two hosts on eth0, then
\* a deep scan that saw one on eth1
PriorTable ==
    LET fast == [i \in 1..Len(PriorHosts) |->
                    [FastRecord(PriorHosts[i], SweepName(PriorHosts[i]),
                                Interfaces[1], 0) EXCEPT !.NextHop = "10.0.0.254"]]
        deep == DeepRecord(DeepHostInfo("10.0.1.1", Interfaces[2]),
                          scanAllTcp("10.0.1.1", TRUE, "full"), "online", 0)
    IN  upsertHost(UpsertEach(<<>>, fast, 1, 0, 0).table, deep, 0, TRUE).table

PriorTables == {<<>>, PriorTable}

\* scan.FastScan(opts) / scan.DeepScan(opts) in cmd's main
DirectCall ==
    /\ cpc = "idle"
    /\ \E f \in {"FastScan", "DeepScan"} : StartCycle(f, scanOpts)
    /\ CycleFrame

(***************************************************************************)
(* Direct calls of bestHostName on every answer of its lookups.            *)
(***************************************************************************)
\* host.Name as the sweep reported it
NmapNames == {"", "NoName", "web"}

\* what net.LookupAddr can answer: an error, no name, names with and
\* without the final dot, the root ".", a host that is called NoName
LookupAnswers ==
    {[err |-> TRUE, names |-> <<>>], [err |-> FALSE, names |-> <<>>],
     [err |-> FALSE, names |-> <<Fqdn("db.lan", TRUE), Fqdn("alias.lan", TRUE)>>],
     [err |-> FALSE, names |-> <<Fqdn("db.lan", FALSE)>>],
     [err |-> FALSE, names |-> <<Fqdn("", TRUE)>>],
     [err |-> FALSE, names |-> <<Fqdn("NoName", TRUE)>>]}

\* what nbtscan can print for 10.0.1.1: it fails, it prints nothing, only
\* its header, the line of the host, the line of another host, a line of
\* one field
NbtAnswers ==
    {[err |-> TRUE, lines |-> <<>>], [err |-> FALSE, lines |-> <<>>],
     [err |-> FALSE, lines |-> <<<<"IP", "address", "NetBIOS", "Name">>>>],
     [err |-> FALSE, lines |-> <<<<"IP", "address", "NetBIOS", "Name">>,
                                 <<"10.0.1.1", "PRINTER", "<server>">>>>],
     [err |-> FALSE, lines |-> <<<<"10.0.1.2", "NAS", "<server>">>,
                                 <<"10.0.1.1">>>>]}

NameIdle ==
    /\ bIn = <<>>
    /\ bOut = <<>>
    /\ bPc = "idle"

\* name := bestHostName(ip, host.Name)
CallBestHostName ==
    /\ bPc = "ready"
    /\ bOut' = bestHostNameOf(bIn.ip, bIn.nmapName, bIn.lookup, bIn.nbt)
    /\ bPc' = "done"
    /\ UNCHANGED <<bIn, sweepVars, parseVars, payloadVars, cliVars, remoteVars, worldVars,
                   dbVars, upsertVars, cycleVars, agentVars>>

(***************************************************************************)
(* Direct calls of runNmap and discoverLiveHosts on what nmap -sn prints.  *)
(* A line is the sequence of its fields (strings.Fields), a field the      *)
(* sequence of its parentheses and its text.                               *)
(***************************************************************************)
MaxLines == 2

Word(w) == <<w>>
Paren(w) == <<"(", w, ")">>

\* strings.HasPrefix(line, "Nmap scan report for")
ReportPrefix == <<Word("Nmap"), Word("scan"), Word("report"), Word("for")>>
HasReportPrefix(line) == Len(line) >= 4 /\ SubSeq(line, 1, 4) = ReportPrefix

\* strings.HasPrefix(fields[5], "(")
HasParenPrefix(f) == f # <<>> /\ f[1] = "("

RECURSIVE TrimParens(_)
\* strings.Trim(fields[5], "()")
TrimParens(f) ==
    IF f # <<>> /\ f[1] \in {"(", ")"} THEN TrimParens(Tail(f))
    ELSE IF f # <<>> /\ f[Len(f)] \in {"(", ")"} THEN TrimParens(SubSeq(f, 1, Len(f) - 1))
    ELSE f

\* the lines nmap -sn prints, and lines of other shapes
ReportLines ==
    {ReportPrefix \o <<Word("web"), Paren("10.0.0.1")>>,
     ReportPrefix \o <<Word("10.0.0.1"), Paren("web")>>,
     ReportPrefix \o <<Word("10.0.0.9")>>,
     ReportPrefix \o <<Word("10.0.0.1")>>,
     ReportPrefix \o <<Word("web"), Word("10.0.0.1")>>,
     ReportPrefix \o <<Word("my"), Word("host"), Paren("10.0.0.3")>>,
     ReportPrefix,
     <<Word("Host"), Word("is"), Word("up"), Paren("0.0010s"), Word("latency"), <<")">>>>}

NmapOutputs ==
    {[err |-> TRUE, lines |-> <<>>]}
    \cup {[err |-> FALSE, lines |-> l] :
             l \in UNION {[1..n -> ReportLines] : n \in 0..MaxLines}}

ErrNmap == <<"exit status 1">>

\* Mutant of ReportEntry: the shapes are told apart by the field count only.
ReportEntryByCount(line) ==
    IF ~HasReportPrefix(line) THEN <<>>
    ELSE IF Len(line) = 6
    THEN <<[IP |-> TrimParens(line[6]), Name |-> line[5]]>>
    ELSE IF Len(line) = 5
    THEN <<[IP |-> line[5], Name |-> Word("NoName")]>>
    ELSE <<>>

\* the body of the loop over the lines, the same in runNmap and in
\* discoverLiveHosts: the entry a line yields, if any
ReportEntry(line) ==
    IF ~HasReportPrefix(line) THEN <<>>
    ELSE IF Len(line) = 6 /\ HasParenPrefix(line[6])
    THEN <<[IP |-> TrimParens(line[6]), Name |-> line[5]]>>
    ELSE IF Len(line) = 5
    THEN <<[IP |-> line[5], Name |-> Word("NoName")]>>
    ELSE <<>>

RECURSIVE RunNmapLines(_, _, _)
\* hosts[ip] = name for every line that yields an entry
RunNmapLines(lines, i, hosts) ==
    IF i > Len(lines) THEN hosts
    ELSE LET e == ReportEntry(lines[i])
         IN  RunNmapLines(lines, i + 1,
                          IF e = <<>> THEN hosts ELSE MapPut(hosts, e[1].IP, e[1].Name))

\* func runNmap(subnet string) (map[string]string, error)
runNmap(out) ==
    IF out.err THEN [hosts |-> EmptyMap, err |-> ErrNmap]
    ELSE [hosts |-> RunNmapLines(out.lines, 1, EmptyMap), err |-> Nil]

RECURSIVE DiscoverLines(_, _, _)
\* hosts = append(hosts, HostInfo{IP: ip, Name: name}) for every line that
\* yields an entry
DiscoverLines(lines, i, hosts) ==
    IF i > Len(lines) THEN hosts
    ELSE DiscoverLines(lines, i + 1, hosts \o ReportEntry(lines[i]))

\* func discoverLiveHosts(subnet string) ([]HostInfo, error)
discoverLiveHosts(out) ==
    IF out.err THEN [hosts |-> <<>>, err |-> ErrNmap]
    ELSE [hosts |-> DiscoverLines(out.lines, 1, <<>>), err |-> Nil]

SweepIdle ==
    /\ nOut = <<>>
    /\ nMap = <<>>
    /\ nList = <<>>
    /\ nPc = "idle"

SweepHarnessFrame ==
    UNCHANGED <<nOut, nameVars, parseVars, payloadVars, cliVars, remoteVars, worldVars,
                dbVars, upsertVars, cycleVars, agentVars>>

\* hosts, err := runNmap(iface.Subnet)
CallRunNmap ==
    /\ nPc = "ready"
    /\ nMap' = runNmap(nOut)
    /\ nPc' = "mapped"
    /\ UNCHANGED nList
    /\ SweepHarnessFrame

\* hosts, err := discoverLiveHosts(iface.Subnet) on the same output
CallDiscoverLiveHosts ==
    /\ nPc = "mapped"
    /\ nList' = discoverLiveHosts(nOut)
    /\ nPc' = "done"
    /\ UNCHANGED nMap
    /\ SweepHarnessFrame

(***************************************************************************)
(* The fastscan command of main.go: its flags, parseFastScanOptions and    *)
(* the call of FastScan.                                                   *)
(***************************************************************************)
ErrFlags == <<"--site and --agent are required when --remote is specified">>

\* func (r remoteFlagConfig) options() (scan.RemotePayloadOptions, error)
options(a) ==
    LET c == [ControllerURL |-> a.remote, SiteID |-> a.site, AgentID |-> a.agent,
              SiteName |-> a.siteName,
              AgentVersion |-> IF a.agentVersion = "" THEN ScannerVersion
                               ELSE a.agentVersion,
              Token |-> a.token]
    IN  [opts |-> [PrintJSON |-> a.json, Config |-> c],
         err |-> IF c.ControllerURL # <<>> /\ (c.SiteID = <<>> \/ c.AgentID = <<>>)
                 THEN ErrFlags ELSE Nil]

\* Mutant of parseFastScanOptions: SkipDB is the --skip-db flag.
parseFastScanOptionsFlagOnly(a) ==
    LET r == options(a)
    IN  IF r.err # Nil
        THEN [opts |-> [SkipDB |-> FALSE,
                        Remote |-> [PrintJSON |-> FALSE, Config |-> EmptyConfig]],
              err |-> r.err]
        ELSE [opts |-> [SkipDB |-> a.skipDB, Remote |-> r.opts], err |-> Nil]

\* func parseFastScanOptions(args []string) (scan.FastScanOptions, error)
parseFastScanOptions(a) ==
    LET r == options(a)
    IN  IF r.err # Nil
        THEN [opts |-> [SkipDB |-> FALSE,
                        Remote |-> [PrintJSON |-> FALSE, Config |-> EmptyConfig]],
              err |-> r.err]
        ELSE [opts |-> [SkipDB |-> IF ~a.skipDB /\ (r.opts.PrintJSON \/ Enabled(r.opts.Config))
                                   THEN TRUE ELSE a.skipDB,
                        Remote |-> r.opts],
              err |-> Nil]

\* the flags --skip-db, --json, --remote, --site, --agent, --site-name,
\* --agent-version, --token
FastScanArgs ==
    [skipDB : BOOLEAN, json : BOOLEAN, remote : {<<>>, BaseURL},
     site : {<<>>, <<"site1">>}, agent : {<<>>, <<"agent1">>},
     siteName : {<<>>}, agentVersion : {""}, token : {"tok"}]

CliIdle ==
    /\ cliArgs = <<>>
    /\ cliErr = Nil

\* case "fastscan": opts, err := parseFastScanOptions(args); a flag error
\* ends the process, else scan.FastScan(opts) is called
CmdFastScan ==
    /\ cpc = "idle"
    /\ cliErr = Nil
    /\ LET r == parseFastScanOptions(cliArgs)
       IN  IF r.err # Nil
           THEN /\ cliErr' = r.err
                /\ UNCHANGED <<cycleVars, dbVars, worldVars>>
           ELSE /\ cliErr' = cliErr
                /\ StartCycle("FastScan", r.opts)
    /\ UNCHANGED <<cliArgs, nameVars, sweepVars, parseVars, payloadVars, remoteVars,
                   upsertVars, agentVars>>

(***************************************************************************)
(* RunRemoteAgent (agent.go): the scheduler of the agent command.          *)
(***************************************************************************)
ErrAgentConfig == <<"remote agent requires controller URL, site ID, and agent ID">>

ErrUnsupported(cmd) == <<"remote agent does not support", cmd>>

\* 15 * time.Minute, in minutes
DefaultInterval == 15

\* Mutant of ApplyDefaults: an empty site name stays empty.
ApplyDefaultsNoSiteName(c) ==
    [c EXCEPT !.Remote.AgentVersion = IF @ = "" THEN ScannerVersion ELSE @,
              !.Interval = IF @ <= 0 THEN DefaultInterval ELSE @,
              !.ScanCommand = IF @ = "" THEN "deepscan" ELSE @]

\* the defaulting of the configuration at the head of RunRemoteAgent
ApplyDefaults(c) ==
    [c EXCEPT !.Remote.SiteName = IF @ = <<>> THEN c.Remote.SiteID ELSE @,
              !.Remote.AgentVersion = IF @ = "" THEN ScannerVersion ELSE @,
              !.Interval = IF @ <= 0 THEN DefaultInterval ELSE @,
              !.ScanCommand = IF @ = "" THEN "deepscan" ELSE @]

\* remoteOpts := RemotePayloadOptions{PrintJSON: cfg.PrintJSON, Config: cfg.Remote}
remoteOpts(c) == [PrintJSON |-> c.PrintJSON, Config |-> c.Remote]

\* the cases of runOnce's switch that run a scan
Supported(cmd) == cmd \in {"fastscan", "deepscan"}

AgentIdle ==
    /\ apc = "idle"
    /\ cfgArg = <<>>
    /\ cfg = <<>>
    /\ iteration = 0
    /\ tickReady = FALSE
    /\ ticksFired = 0
    /\ agentRet = Nil
    /\ agentLog = <<>>
    /\ activeRuns = {}
    /\ runs = 0

\* Mutant of runOnce: the scans are called with SkipDB: false.
runOnceWithStore(c, n) ==
    /\ activeRuns' = activeRuns \cup {n}
    /\ runs' = runs + 1
    /\ IF Supported(c.ScanCommand)
       THEN StartCycle(IF c.ScanCommand = "fastscan" THEN "FastScan" ELSE "DeepScan",
                       [SkipDB |-> FALSE, Remote |-> remoteOpts(c)])
       ELSE /\ ret' = ErrUnsupported(c.ScanCommand)
            /\ cpc' = "returned"
            /\ UNCHANGED <<fn, logCreated, scanOpts, interfaces, ifIdx, swept,
                           discovered, progressLog, db, markedScope, tpc,
                           tprobe, scratch, tscan, trec, ttmp, batchMu, remoteBatch, joined, cycles,
                           prevTable, gateway, hostsTable, externalNetworks, clock, netRequests,
                           stdoutJSON>>

\* the call runOnce() of run n under configuration c: FastScan or DeepScan
\* is entered with SkipDB: true, or the error of the default case is returned
runOnce(c, n) ==
    /\ activeRuns' = activeRuns \cup {n}
    /\ runs' = runs + 1
    /\ IF Supported(c.ScanCommand)
       THEN StartCycle(IF c.ScanCommand = "fastscan" THEN "FastScan" ELSE "DeepScan",
                       [SkipDB |-> TRUE, Remote |-> remoteOpts(c)])
       ELSE /\ ret' = ErrUnsupported(c.ScanCommand)
            /\ cpc' = "returned"
            /\ UNCHANGED <<fn, logCreated, scanOpts, interfaces, ifIdx, swept,
                           discovered, progressLog, db, markedScope, tpc,
                           tprobe, scratch, tscan, trec, ttmp, batchMu, remoteBatch, joined, cycles,
                           prevTable, gateway, hostsTable, externalNetworks, clock, netRequests,
                           stdoutJSON>>

AgentFrame == UNCHANGED <<parseVars, payloadVars, cliVars, nameVars, sweepVars, remoteVars, upsertVars>>

\* RunRemoteAgent from its entry to the call of the initial runOnce()
AgentStart ==
    /\ apc = "start"
    /\ IF ~Enabled(cfg.Remote)
       THEN /\ agentRet' = ErrAgentConfig
            /\ apc' = "returned"
            /\ UNCHANGED <<cfgArg, cfg, activeRuns, runs, cycleVars, dbVars, worldVars>>
       ELSE /\ cfg' = ApplyDefaults(cfg)
            /\ cfgArg' = cfgArg
            /\ apc' = "initial"
            /\ agentRet' = agentRet
            /\ runOnce(ApplyDefaults(cfg), 1)
    /\ UNCHANGED <<iteration, tickReady, ticksFired, agentLog>>
    /\ AgentFrame

\* Mutant of OnceReturns: the one-shot flag is not looked at.
OnceIgnored(c) == FALSE

\* if cfg.Once { return nil }
OnceReturns(c) == c.Once

\* the return of the initial runOnce(): its error is printed and returned;
\* else one-shot mode returns nil, repeating mode creates the ticker
AgentInitialDone ==
    /\ apc = "initial"
    /\ cpc = "returned"
    /\ activeRuns' = activeRuns \ {1}
    /\ IF ret # Nil
       THEN /\ agentLog' = Append(agentLog, AgentLine("initial_failed", 1))
            /\ agentRet' = ret
            /\ apc' = "returned"
            /\ iteration' = iteration
       ELSE /\ agentLog' = Append(agentLog, AgentLine("initial_completed", 1))
            /\ agentRet' = agentRet
            /\ apc' = IF OnceReturns(cfg) THEN "returned" ELSE "loop"
            /\ iteration' = IF OnceReturns(cfg) THEN iteration ELSE 1
    /\ UNCHANGED <<cfgArg, cfg, tickReady, ticksFired, runs, cycleVars, dbVars, worldVars>>
    /\ AgentFrame

\* Mutant of TickerRunning: the ticker is created before the initial run.
TickerFromStart == apc \in {"initial", "loop", "running"}

\* the ticker of time.NewTicker(cfg.Interval) exists
TickerRunning == apc \in {"loop", "running"}

\* the ticker fires: its channel (of capacity 1) holds one tick, a tick
\* that finds the channel full is dropped
Tick ==
    /\ TickerRunning
    /\ ticksFired < MaxTicks
    /\ ticksFired' = ticksFired + 1
    /\ tickReady' = TRUE
    /\ UNCHANGED <<apc, cfgArg, cfg, iteration, agentRet, agentLog, activeRuns, runs,
                   cycleVars, dbVars, worldVars>>
    /\ AgentFrame

\* Mutant of LoopReceives: the loop takes ticks while a run is going on.
LoopReceivesAlways(pc) == pc \in {"loop", "running"}

\* for tick := range ticker.C: the loop receives only between runs
LoopReceives(pc) == pc = "loop"

\* Mutant of TickTaken: the tick stays in the channel.
TickKept(ready) == ready

\* the receive from ticker.C empties the channel
TickTaken(ready) == FALSE

\* Mutant of NextIteration: the counter is not advanced.
SameIteration(n) == n

\* iteration++
NextIteration(n) == n + 1

\* a tick is received: iteration++, "run %d starting", runOnce()
AgentTick ==
    /\ LoopReceives(apc)
    /\ tickReady
    /\ iteration < MaxRuns
    /\ tickReady' = TickTaken(tickReady)
    /\ ticksFired' = ticksFired
    /\ iteration' = NextIteration(iteration)
    /\ agentLog' = Append(agentLog, AgentLine("run_starting", NextIteration(iteration)))
    /\ apc' = "running"
    /\ runOnce(cfg, NextIteration(iteration))
    /\ UNCHANGED <<cfgArg, cfg, agentRet>>
    /\ AgentFrame

\* Mutant of AfterRun: a failed run ends the agent, like the initial one.
AfterRunFatal(err) == IF err # Nil THEN "returned" ELSE "loop"

\* if err := runOnce(); err != nil { print; continue }: the loop goes on
\* whatever the run returned
AfterRun(err) == "loop"

\* the return of runOnce() in the loop: "run %d failed" or "run %d finished"
AgentRunDone ==
    /\ apc = "running"
    /\ cpc = "returned"
    /\ activeRuns' = activeRuns \ {iteration}
    /\ agentLog' = Append(agentLog,
                          AgentLine(IF ret # Nil THEN "run_failed" ELSE "run_finished",
                                    iteration))
    /\ apc' = AfterRun(ret)
    /\ agentRet' = IF AfterRun(ret) = "returned" THEN ret ELSE agentRet
    /\ UNCHANGED <<cfgArg, cfg, iteration, tickReady, ticksFired, runs, cycleVars, dbVars,
                   worldVars>>
    /\ AgentFrame

\* the configurations the agent is started with
AgentConfigs ==
    {[Remote |-> r, Interval |-> pi[2], Once |-> once, PrintJSON |-> pi[1],
      ScanCommand |-> cmd] :
        r \in {FullConfig, EmptyConfig, [FullConfig EXCEPT !.AgentID = <<>>],
                [FullConfig EXCEPT !.SiteID = <<>>]},
        pi \in {<<FALSE, 0>>, <<TRUE, 60>>},
        once \in BOOLEAN, cmd \in {"", "fastscan", "deepscan", "dockerscan"}}
    \cup {[Remote |-> [FullConfig EXCEPT !.SiteName = <<"HQ">>, !.AgentVersion = "v1"],
            Interval |-> 60, Once |-> once, PrintJSON |-> TRUE,
            ScanCommand |-> "fastscan"] : once \in BOOLEAN}

(*SPECS*)
InitParse ==
    /\ pEntries \in EntryLists
    /\ portsField = RenderField(pEntries)
    /\ details = NoDetails
    /\ pPc = "ready"
    /\ PayloadIdle
    /\ CliIdle
    /\ NameIdle
    /\ SweepIdle
    /\ RemoteIdle
    /\ WorldIdle
    /\ DbIdle
    /\ UpsertIdle
    /\ CycleIdle
    /\ AgentIdle

\* details := parseNmapPorts(m[1])  (scanAllTcp, deep_scan.go:155)
CallParse ==
    /\ pPc = "ready"
    /\ details' = parseNmapPorts(portsField)
    /\ pPc' = "done"
    /\ UNCHANGED <<pEntries, portsField>>

NextParse ==
    CallParse /\ UNCHANGED <<payloadVars, cliVars, nameVars, sweepVars, remoteVars, worldVars, dbVars, upsertVars, cycleVars, agentVars>>

SpecParse == InitParse /\ [][NextParse]_vars

InitPayload ==
    /\ hRec \in HostRecords
    /\ hAfter = <<>>
    /\ hPayload = <<>>
    /\ hWire = <<>>
    /\ hDecoded = <<>>
    /\ hPc = "ready"
    /\ ParseIdle
    /\ CliIdle
    /\ NameIdle
    /\ SweepIdle
    /\ RemoteIdle
    /\ WorldIdle
    /\ DbIdle
    /\ UpsertIdle
    /\ CycleIdle
    /\ AgentIdle

PayloadFrame ==
    UNCHANGED <<parseVars, cliVars, nameVars, sweepVars, remoteVars, worldVars, dbVars, upsertVars, cycleVars, agentVars>>

NextPayload ==
    \/ CallToRemoteHostPayload /\ PayloadFrame
    \/ CallRoundTrip /\ PayloadFrame

SpecPayload == InitPayload /\ [][NextPayload]_vars

InitCli ==
    /\ cliArgs \in FastScanArgs
    /\ cliErr = Nil
    /\ NameIdle
    /\ SweepIdle
    /\ CycleIdle
    /\ hostsTable \in PriorTables
    /\ externalNetworks = <<>>
    /\ clock = 0
    /\ WorldIdle
    /\ ParseIdle
    /\ PayloadIdle
    /\ RemoteIdle
    /\ UpsertIdle
    /\ AgentIdle

NextCli ==
    \/ CmdFastScan
    \/ GetInterfaces
    \/ SweepSubnet
    \/ FastPersist
    \/ EmitAndReturn

SpecCli == InitCli /\ [][NextCli]_vars

InitNames ==
    /\ bIn \in [ip : {"10.0.1.1"}, nmapName : NmapNames, lookup : LookupAnswers,
                 nbt : NbtAnswers]
    /\ bOut = <<>>
    /\ bPc = "ready"
    /\ SweepIdle
    /\ CliIdle
    /\ CycleIdle
    /\ hostsTable = <<>>
    /\ externalNetworks = <<>>
    /\ clock = 0
    /\ WorldIdle
    /\ ParseIdle
    /\ PayloadIdle
    /\ RemoteIdle
    /\ UpsertIdle
    /\ AgentIdle

NextNames == CallBestHostName

SpecNames == InitNames /\ [][NextNames]_vars

InitSweep ==
    /\ nOut \in NmapOutputs
    /\ nMap = <<>>
    /\ nList = <<>>
    /\ nPc = "ready"
    /\ NameIdle
    /\ CliIdle
    /\ CycleIdle
    /\ hostsTable = <<>>
    /\ externalNetworks = <<>>
    /\ clock = 0
    /\ WorldIdle
    /\ ParseIdle
    /\ PayloadIdle
    /\ RemoteIdle
    /\ UpsertIdle
    /\ AgentIdle

NextSweep ==
    \/ CallRunNmap
    \/ CallDiscoverLiveHosts

SpecSweep == InitSweep /\ [][NextSweep]_vars

InitRemote ==
    /\ rcfg \in RemoteConfigs
    /\ rPrintJSON \in BOOLEAN
    /\ rHosts \in SampleHostLists
    /\ rCall = "none"
    /\ rRet = Nil
    /\ rResp = <<>>
    /\ rUrl = <<>>
    /\ rPc = "ready"
    /\ WorldIdle
    /\ ParseIdle
    /\ PayloadIdle
    /\ CliIdle
    /\ NameIdle
    /\ SweepIdle
    /\ DbIdle
    /\ UpsertIdle
    /\ CycleIdle
    /\ AgentIdle

RemoteFrame == UNCHANGED <<parseVars, payloadVars, cliVars, nameVars, sweepVars, dbVars, upsertVars, cycleVars, agentVars>>

NextRemote ==
    \/ CallEndpoint /\ RemoteFrame
    \/ CallPostPayload /\ RemoteFrame
    \/ CallPostPayloadWithBody /\ RemoteFrame
    \/ CallEmit /\ RemoteFrame
    \/ CallEmitHosts /\ RemoteFrame

SpecRemote == InitRemote /\ [][NextRemote]_vars

InitUpsert ==
    /\ hostsTable = <<>>
    /\ externalNetworks = <<>>
    /\ clock = 0
    /\ uCalls = 0
    /\ uFirst = [k \in UpsertKeys |-> NoCall]
    /\ uLast = [k \in UpsertKeys |-> NoCall]
    /\ uPc = "ready"
    /\ ParseIdle
    /\ PayloadIdle
    /\ CliIdle
    /\ NameIdle
    /\ SweepIdle
    /\ RemoteIdle
    /\ WorldIdle
    /\ CycleIdle
    /\ AgentIdle

NextUpsert ==
    CallUpsert /\ UNCHANGED <<parseVars, payloadVars, cliVars, nameVars, sweepVars, remoteVars, worldVars, cycleVars, agentVars>>

SpecUpsert == InitUpsert /\ [][NextUpsert]_vars

Init ==
    /\ fn = "none"
    /\ logCreated = FALSE
    /\ AgentIdle
    /\ scanOpts \in DirectOptions
    /\ cpc = "idle"
    /\ interfaces = <<>>
    /\ ifIdx = 0
    /\ swept = <<>>
    /\ discovered = <<>>
    /\ progressLog = <<>>
    /\ db = "nil"
    /\ markedScope = {}
    /\ tpc = <<>>
    /\ tprobe = <<>>
    /\ scratch = NoScratch
    /\ tscan = <<>>
    /\ trec = <<>>
    /\ ttmp = <<>>
    /\ batchMu = 0
    /\ remoteBatch = <<>>
    /\ joined = FALSE
    /\ ret = Nil
    /\ cycles = 0
    /\ prevTable = <<>>
    /\ gateway = ""
    /\ hostsTable \in PriorTables
    /\ externalNetworks = <<>>
    /\ clock = 0
    /\ WorldIdle
    /\ ParseIdle
    /\ PayloadIdle
    /\ CliIdle
    /\ NameIdle
    /\ SweepIdle
    /\ RemoteIdle
    /\ UpsertIdle

Next ==
    \/ DirectCall
    \/ GetInterfaces
    \/ SweepSubnet
    \/ FastPersist
    \/ DeepOpenDB
    \/ DeepSpawn
    \/ \E i \in DOMAIN tpc : TaskNmapStart(i)
    \/ \E i \in DOMAIN tpc : TaskNmapExit(i)
    \/ \E i \in DOMAIN tpc : TaskRead(i)
    \/ \E i \in DOMAIN tpc : TaskScan(i)
    \/ \E i \in DOMAIN tpc : TaskHang(i)
    \/ \E i \in DOMAIN tpc : TaskUpsert(i)
    \/ \E i \in DOMAIN tpc : TaskLock(i)
    \/ \E i \in DOMAIN tpc : TaskWrite(i)
    \/ \E i \in DOMAIN tpc : TaskDone(i)
    \/ DeepJoin
    \/ EmitAndReturn

Spec == Init /\ [][Next]_vars

\* one call of FastScan or DeepScan on a host with two interfaces on one
\* subnet
NextDual ==
    \/ DirectCall
    \/ GetInterfacesDual
    \/ SweepSubnet
    \/ FastPersist
    \/ DeepOpenDB
    \/ DeepSpawn
    \/ \E i \in DOMAIN tpc : TaskNmapStart(i)
    \/ \E i \in DOMAIN tpc : TaskNmapExit(i)
    \/ \E i \in DOMAIN tpc : TaskRead(i)
    \/ \E i \in DOMAIN tpc : TaskScan(i)
    \/ \E i \in DOMAIN tpc : TaskHang(i)
    \/ \E i \in DOMAIN tpc : TaskUpsert(i)
    \/ \E i \in DOMAIN tpc : TaskLock(i)
    \/ \E i \in DOMAIN tpc : TaskWrite(i)
    \/ \E i \in DOMAIN tpc : TaskDone(i)
    \/ DeepJoin
    \/ EmitAndReturn

SpecDual == Init /\ [][NextDual]_vars

InitAgent ==
    /\ apc = "start"
    /\ cfgArg \in AgentConfigs
    /\ cfg = cfgArg
    /\ iteration = 0
    /\ tickReady = FALSE
    /\ ticksFired = 0
    /\ agentRet = Nil
    /\ agentLog = <<>>
    /\ activeRuns = {}
    /\ runs = 0
    /\ CycleIdle
    /\ DbIdle
    /\ WorldIdle
    /\ ParseIdle
    /\ PayloadIdle
    /\ CliIdle
    /\ NameIdle
    /\ SweepIdle
    /\ RemoteIdle
    /\ UpsertIdle

\* the agent runs its scans with SkipDB: true, so the steps of a scan that
\* touch the database are no steps of the agent
NextAgent ==
    \/ AgentStart
    \/ AgentInitialDone
    \/ Tick
    \/ AgentTick
    \/ AgentRunDone
    \/ GetInterfaces
    \/ SweepSubnet
    \/ DeepSpawn
    \/ \E i \in DOMAIN tpc : TaskNmapStart(i)
    \/ \E i \in DOMAIN tpc : TaskNmapExit(i)
    \/ \E i \in DOMAIN tpc : TaskRead(i)
    \/ \E i \in DOMAIN tpc : TaskScan(i)
    \/ \E i \in DOMAIN tpc : TaskHang(i)
    \/ \E i \in DOMAIN tpc : TaskLock(i)
    \/ \E i \in DOMAIN tpc : TaskWrite(i)
    \/ \E i \in DOMAIN tpc : TaskDone(i)
    \/ DeepJoin
    \/ EmitAndReturn

SpecAgent == InitAgent /\ [][NextAgent]_vars

(***************************************************************************)
(* Claims about parseNmapPorts.                                            *)
(***************************************************************************)
RECURSIVE SelectStates(_)
\* the states, in input order, of the well-formed entries whose state is
\* open, open|filtered, filtered or unfiltered
SelectStates(es) ==
    IF es = <<>> THEN <<>>
    ELSE IF ~Head(es).short
            /\ Head(es).state \in {"open", "open|filtered", "filtered", "unfiltered"}
         THEN << <<Head(es).state>> >> \o SelectStates(Tail(es))
         ELSE SelectStates(Tail(es))

StatesOf(ports) == [i \in 1..Len(ports) |-> ports[i].State]

\* C1: parseNmapPorts retains, in input order, exactly the entries whose
\* state is open, open|filtered, filtered or unfiltered, and drops closed
\* ones; the first fixture yields states [open|filtered, open, filtered]
\* and the second exactly one port, number 80 in state unfiltered.
C1_RetainsAcceptedStates ==
    pPc = "done" =>
        /\ StatesOf(details.Ports) = SelectStates(pEntries)
        /\ pEntries = FixtureOpenVariants =>
               StatesOf(details.Ports) = << <<"open|filtered">>, <<"open">>, <<"filtered">> >>
        /\ pEntries = FixtureUnfiltered =>
               /\ Len(details.Ports) = 1
               /\ details.Ports[1].Port = 80
               /\ details.Ports[1].State = <<"unfiltered">>


(***************************************************************************)
(* Claims about the remote emitter.                                        *)
(***************************************************************************)
Incomplete(rc) == rc.ControllerURL = <<>> \/ rc.SiteID = <<>> \/ rc.AgentID = <<>>

\* C7: enablement gate.  For every RemoteConfig in which ControllerURL,
\* SiteID or AgentID is empty, Enabled() is false and neither emitHosts,
\* emit nor PostPayload performs an HTTP request, with PrintJSON set or not.
C7_EnablementGate ==
    (rPc = "done" /\ Incomplete(rcfg)) =>
        /\ ~Enabled(rcfg)
        /\ netRequests = <<>>

\* C7 witness: emitHosts ran with JSON echo on an incomplete configuration
\* that names a controller, printed the payload and made no request.
C7_Witness ==
    /\ rPc = "done"
    /\ rCall = "emitHosts"
    /\ rPrintJSON
    /\ rcfg.ControllerURL # <<>>
    /\ rcfg.SiteID = <<>>
    /\ stdoutJSON # <<>>
    /\ netRequests = <<>>

\* C8: endpoint construction.  For every RemoteConfig with non-empty
\* ControllerURL, SiteID and AgentID, endpoint() is ControllerURL without
\* its trailing slashes, followed by "/sites/" SiteID "/agents/" AgentID
\* "/ingest", SiteID and AgentID unchanged.
C8_EndpointConstruction ==
    (rPc = "done" /\ rCall = "endpoint" /\ ~Incomplete(rcfg)) =>
        /\ rRet = Nil
        /\ rUrl = TrimRight(rcfg.ControllerURL, "/") \o <<"/", "sites", "/">>
                  \o rcfg.SiteID \o <<"/", "agents", "/">> \o rcfg.AgentID
                  \o <<"/", "ingest">>

(***************************************************************************)
(* Claims about upsertHost.                                                *)
(***************************************************************************)
RowsOfKey(k) == {i \in DOMAIN hostsTable :
                    <<hostsTable[i].ip, hostsTable[i].interface_name>> = k}

\* the row of key k (there is exactly one where this is used)
RowOfKey(k) == hostsTable[CHOOSE i \in RowsOfKey(k) : TRUE]

\* C5 (as claimed): after N >= 1 upsertHost calls on one key, the table
\* holds exactly one row for the key and the row carries the values of the
\* last call, in every column.
C5_RowReflectsLastCall ==
    \A k \in UpsertKeys :
        (uPc = "ready" /\ uLast[k].called) =>
            /\ Cardinality(RowsOfKey(k)) = 1
            /\ RowOfKey(k) = RowOf(uLast[k].host, uLast[k].now)

\* C5 (amended): once a call on the key has succeeded the table holds
\* exactly one row for it; the row carries name, os_details, mac_address,
\* open_ports, next_hop, last_seen and online_status of the last successful
\* call and the network_name of the first successful call; a key with no
\* successful call has no row.
C5_UpsertIdempotent ==
    \A k \in UpsertKeys :
        uPc = "ready" =>
            IF uLast[k].called
            THEN /\ Cardinality(RowsOfKey(k)) = 1
                 /\ RowOfKey(k) =
                       [RowOf(uLast[k].host, uLast[k].now) EXCEPT
                           !.network_name =
                               RowOf(uFirst[k].host, uFirst[k].now).network_name]
            ELSE RowsOfKey(k) = {}

\* C5 witness: two successful calls on one key with different hostnames and
\* network names have been made and the table holds a row for the key.
C5_Witness ==
    \E k \in UpsertKeys :
        /\ uCalls = 2
        /\ uLast[k].called
        /\ uFirst[k].host.Hostname # uLast[k].host.Hostname
        /\ uFirst[k].host.NetworkName # uLast[k].host.NetworkName
        /\ uFirst[k].host.OnlineStatus # uLast[k].host.OnlineStatus
        /\ RowsOfKey(k) # {}

\* the key of a stored row
RowKey(row) == <<row.ip, row.interface_name>>

\* the key has just been written by a successful call
JustUpserted(k) == k \in UpsertKeys /\ uLast'[k] # uLast[k]

\* C37: frame of an upsert on an existing key.  A call of upsertHost keeps
\* every row that was in the table at its position; the row of the key it
\* was called on gets name, os_details, mac_address, open_ports, next_hop,
\* last_seen and online_status of the new record and keeps its key columns
\* and its network_name, whatever NetworkName the record carries; every
\* row of another key is left as it was.
C37_UpsertFrame ==
    [][\A i \in DOMAIN hostsTable :
          /\ i \in DOMAIN hostsTable'
          /\ IF JustUpserted(RowKey(hostsTable[i]))
             THEN LET new == RowOf(uLast'[RowKey(hostsTable[i])].host,
                                   uLast'[RowKey(hostsTable[i])].now)
                  IN  hostsTable'[i] =
                         [ip |-> hostsTable[i].ip,
                          interface_name |-> hostsTable[i].interface_name,
                          network_name |-> hostsTable[i].network_name,
                          name |-> new.name, os_details |-> new.os_details,
                          mac_address |-> new.mac_address,
                          open_ports |-> new.open_ports,
                          next_hop |-> new.next_hop,
                          last_seen |-> new.last_seen,
                          online_status |-> new.online_status]
             ELSE hostsTable'[i] = hostsTable[i]]_vars

\* C37 witness: a key was inserted, then another key, then the first key
\* was upserted again with another hostname and another network name; its
\* row has the new name and the first network name, and the other key's
\* row is the one its only call wrote.
C37_Witness ==
    \E k, o \in UpsertKeys :
        /\ k # o
        /\ uPc = "ready"
        /\ uLast[k].called /\ uLast[o].called
        /\ uFirst[o] = uLast[o]
        /\ uFirst[k].now < uLast[o].now /\ uLast[o].now < uLast[k].now
        /\ uFirst[k].host.Hostname # uLast[k].host.Hostname
        /\ RowOf(uFirst[k].host, uFirst[k].now).network_name
               # RowOf(uLast[k].host, uLast[k].now).network_name
        /\ Cardinality(RowsOfKey(k)) = 1 /\ Cardinality(RowsOfKey(o)) = 1
        /\ RowOfKey(k).name = uLast[k].host.Hostname
        /\ RowOfKey(k).network_name
               = RowOf(uFirst[k].host, uFirst[k].now).network_name
        /\ RowOfKey(o) = RowOf(uLast[o].host, uLast[o].now)

(***************************************************************************)
(* Claims about RunRemoteAgent.                                            *)
(***************************************************************************)
AgentLogged(kind, n) == \E i \in DOMAIN agentLog : agentLog[i] = AgentLine(kind, n)

\* C2 (as claimed): in repeating mode no failed cycle, the first included,
\* makes RunRemoteAgent return: once a scan has been started the agent is
\* never in its returned state.
C2_FailedCycleNeverFatal ==
    (~cfg.Once /\ cycles >= 1) => apc # "returned"

\* What RunRemoteAgent does instead: in repeating mode it returns only from
\* its initial run, with that run's error, after printing "initial ... failed";
\* a ticker-driven run that returned an error is printed as "run N failed"
\* and leaves the agent in its loop.
C2_LaterFailureNotFatal ==
    ~cfg.Once =>
        /\ (apc = "returned" /\ runs >= 1) =>
              /\ runs = 1
              /\ ret # Nil
              /\ agentRet = ret
              /\ AgentLogged("initial_failed", 1)
        /\ (apc = "loop" /\ iteration >= 2 /\ ret # Nil) =>
              AgentLogged("run_failed", iteration)
        /\ \A n \in 2..MaxRuns :
              AgentLogged("run_failed", n) => apc \in {"loop", "running"}

\* C2 witness: in repeating mode the second run's scan failed, was printed
\* as failed, and the third run is under way.
C2_Witness ==
    /\ ~cfg.Once
    /\ AgentLogged("run_failed", 2)
    /\ iteration = 3
    /\ apc = "running"
    /\ cpc = "sweep"

\* C3: cycles of one agent never overlap.  At most one runOnce() call is in
\* progress; the scan that is running belongs to it; the loop is at its
\* receive, where the next run starts, only when the previous call has
\* returned; and a DeepScan has returned only after its join barrier
\* released with every task finished.
C3_CyclesNeverOverlap ==
    /\ Cardinality(activeRuns) <= 1
    /\ activeRuns \subseteq {runs}
    /\ cpc \notin {"idle", "returned"} => activeRuns = {runs}
    /\ apc = "loop" => (activeRuns = {} /\ cpc = "returned")
    /\ (cpc = "returned" /\ fn = "DeepScan") => (joined /\ AllTasksDone(tpc))

\* C3 witness: the third run's DeepScan has a task still scanning while the
\* ticker has already fired again.
C3_Witness ==
    /\ apc = "running"
    /\ iteration = 3
    /\ tickReady
    /\ fn = "DeepScan"
    /\ cpc = "wait"
    /\ \E i \in DOMAIN tpc : tpc[i] = "scan"
    /\ \E i \in DOMAIN tpc : tpc[i] = "done"

\* C4: one-shot mode.  With a complete remote configuration and Once set,
\* runOnce() is called at most once, no ticker exists and no ticker-driven
\* run starts; when RunRemoteAgent has returned exactly one run was made and
\* the value returned is what that run returned (nil on success).
C4_OneShot ==
    (cfg.Once /\ Enabled(cfg.Remote)) =>
        /\ runs <= 1
        /\ iteration = 0
        /\ ~TickerRunning
        /\ ~tickReady
        /\ apc = "returned" => (runs = 1 /\ activeRuns = {} /\ agentRet = ret)

\* C4 witness: a one-shot agent has returned the error of its only scan.
C4_Witness ==
    /\ cfg.Once
    /\ apc = "returned"
    /\ cycles = 1
    /\ runs = 1
    /\ agentRet # Nil
    /\ netRequests # <<>>

(***************************************************************************)
(* Claims about one FastScan or DeepScan call.                             *)
(***************************************************************************)
KeysOf(hosts) == {<<hosts[i].IP, hosts[i].InterfaceName>> : i \in DOMAIN hosts}

\* the sweep loop of the call has ended
SweepsDone == interfaces # <<>> /\ cpc \notin {"idle", "interfaces", "sweep"}

\* rows within what the cycle marked offline
InScope(row) == "all" \in markedScope \/ row.interface_name \in markedScope

\* SaveHostsToDB has returned nil
FastPersisted == fn = "FastScan" /\ ~scanOpts.SkipDB /\ cpc = "emit"

\* DeepScan has marked, every task has upserted its record, the barrier
\* has released
DeepPersisted ==
    /\ fn = "DeepScan"
    /\ db = "open"
    /\ joined
    /\ cpc = "emit"
    /\ \A i \in DOMAIN progressLog : progressLog[i].kind # "update_failed"

\* previously known rows of the marked scope that were not observed are offline
UnobservedOffline ==
    \A i \in DOMAIN prevTable :
        LET k == <<prevTable[i].ip, prevTable[i].interface_name>>
        IN  (k \notin KeysOf(discovered) /\ InScope(prevTable[i])) =>
                (RowsOfKey(k) # {} /\ RowOfKey(k).online_status = "offline")

\* C6 (as claimed): offline sweep invariant.  After the marking and the
\* upserts of the observed set of one cycle, in fast scan and in DeepScan,
\* every observed row is "online" and every previously known row of the
\* marked scope that was not observed is "offline".
C6_OfflineSweep ==
    (FastPersisted \/ DeepPersisted) =>
        /\ \A k \in KeysOf(discovered) :
              RowsOfKey(k) # {} /\ RowOfKey(k).online_status = "online"
        /\ UnobservedOffline

\* C6 (amended): after the marking and the upserts of the observed set of
\* one cycle, every observed row of a fast scan is "online", every observed
\* row of a DeepScan carries the status its liveness re-check returned, and
\* every previously known row of the marked scope that was not observed is
\* "offline".
C6_OfflineSweepByMode ==
    (FastPersisted \/ DeepPersisted) =>
        /\ \A i \in DOMAIN discovered :
              LET k == <<discovered[i].IP, discovered[i].InterfaceName>>
              IN  /\ Cardinality(RowsOfKey(k)) = 1
                  /\ RowOfKey(k).online_status =
                        IF fn = "FastScan" THEN "online"
                        ELSE RowOf(trec[i], clock).online_status
        /\ UnobservedOffline

\* C6 witness: a DeepScan on a populated table has marked every row, one
\* observed host did not answer the liveness re-check, and a row known
\* before was not observed.
C6_Witness ==
    /\ DeepPersisted
    /\ "all" \in markedScope
    /\ \E i \in DOMAIN trec : trec[i].OnlineStatus = "offline"
    /\ \E i \in DOMAIN prevTable :
          /\ <<prevTable[i].ip, prevTable[i].interface_name>> \notin KeysOf(discovered)
          /\ prevTable[i].online_status = "online"

\* C9: fan-out and join in DeepScan.  One task exists per discovered host
\* and builds that host's record; a task appends only while it holds the
\* lock; nothing is emitted before the barrier has released; and from then
\* on every task has finished and the accumulator holds one record per
\* discovered host, each task's record exactly once.
C9_FanOutJoin ==
    fn = "DeepScan" =>
        /\ (cpc = "wait" \/ joined) =>
              /\ Len(tpc) = Len(discovered)
              /\ \A i \in DOMAIN tpc :
                    tpc[i] \notin {"scan", "nmap", "read", "ping", "hung"} =>
                        /\ trec[i].IP = discovered[i].IP
                        /\ trec[i].InterfaceName = discovered[i].InterfaceName
        /\ \A i \in DOMAIN tpc : tpc[i] = "write" => batchMu = i
        /\ (netRequests # <<>> \/ stdoutJSON # <<>>) => joined
        /\ joined =>
              /\ AllTasksDone(tpc)
              /\ Len(remoteBatch) = Len(discovered)
              /\ \A i \in DOMAIN trec :
                    Cardinality({j \in DOMAIN remoteBatch : remoteBatch[j] = trec[i]}) = 1
        /\ \A i \in DOMAIN stdoutJSON : Len(stdoutJSON[i].Hosts) = Len(discovered)

\* C9 witness: two tasks finished in the reverse of their start order and
\* the payload with both records has been posted.
C9_Witness ==
    /\ fn = "DeepScan"
    /\ joined
    /\ Len(discovered) = 2
    /\ remoteBatch[1] = trec[2]
    /\ remoteBatch[2] = trec[1]
    /\ netRequests # <<>>
    /\ Len(netRequests[1].body.Hosts) = 2

\* the discovery-failure messages about a subnet that reached the log
FailureEntries(subnet) ==
    {i \in DOMAIN progressLog :
        /\ progressLog[i].kind = "discover_failed"
        /\ progressLog[i].what = subnet
        /\ progressLog[i].written}

\* the hosts the successful sweeps reported, with their interfaces
SweptKeys ==
    UNION {{<<swept[k].hosts[j], swept[k].iface.Name>> : j \in DOMAIN swept[k].hosts} :
              k \in {x \in DOMAIN swept : swept[x].ok}}

\* C10: discovery failure is isolated per subnet.  In fastScanCore and in
\* DeepScan, when some sweeps failed and others succeeded, every interface
\* was swept, the hosts found are exactly those of the successful sweeps,
\* and the log holds exactly one discovery-failure entry per failed subnet
\* and none for the others.
C10_DiscoveryFailureIsolated ==
    (/\ SweepsDone
     /\ \E k \in DOMAIN swept : swept[k].ok
     /\ \E k \in DOMAIN swept : ~swept[k].ok) =>
        /\ Len(swept) = Len(interfaces)
        /\ KeysOf(discovered) = SweptKeys
        /\ Len(discovered) = Cardinality(SweptKeys)
        /\ \A k \in DOMAIN swept :
              Cardinality(FailureEntries(swept[k].iface.Subnet)) =
                  IF swept[k].ok THEN 0 ELSE 1

\* the errors emitHosts can return for the batch of the call
EmitErrors ==
    {emitHosts(remoteBatch, scanOpts.Remote, resp).err : resp \in Responses} \ {Nil}

\* C11: probe failure is isolated per host.  A task whose nmap failed or
\* whose scratch file could not be opened has built a record with
\* PortSummary "Unknown", OS "Unknown" and no ports; once the barrier has
\* released every host, probed well or not, has its record in the
\* accumulator; and an error DeepScan returns after its tasks is an error
\* of the emission, never one of a probe.
C11_ProbeFailureIsolated ==
    fn = "DeepScan" =>
        /\ \A i \in DOMAIN tprobe :
              (tprobe[i] \in {"failed", "unreadable"} /\ tpc[i] # "ping") =>
                  /\ trec[i].PortSummary = <<"Unknown">>
                  /\ trec[i].OS = "Unknown"
                  /\ trec[i].Ports = <<>>
                  /\ trec[i].IP = discovered[i].IP
        /\ joined =>
              \A i \in DOMAIN discovered :
                  /\ tprobe[i] \in {"ok", "failed", "unreadable"}
                  /\ \E j \in DOMAIN remoteBatch : remoteBatch[j] = trec[i]
        /\ (joined /\ cpc = "returned" /\ ret # Nil) => ret \in EmitErrors

\* C11 witness: of two hosts the nmap of one succeeded and its scratch file
\* could not be opened, the probe of the other succeeded with ports; both
\* records were posted and DeepScan returned nil.
C11_Witness ==
    /\ fn = "DeepScan"
    /\ cpc = "returned"
    /\ ret = Nil
    /\ Len(discovered) = 2
    /\ tprobe[1] = "unreadable"
    /\ trec[1].OS = "Unknown"
    /\ tprobe[2] = "ok"
    /\ trec[2].Ports # <<>>
    /\ netRequests # <<>>
    /\ Len(netRequests[1].body.Hosts) = 2

\* C11, the other failure: the nmap run of one host failed, the probe of
\* the other succeeded, and both records were posted.
C11_NmapFailureReached ==
    /\ fn = "DeepScan"
    /\ cpc = "returned"
    /\ ret = Nil
    /\ Len(discovered) = 2
    /\ tprobe[1] = "failed"
    /\ trec[1].OS = "Unknown"
    /\ tprobe[2] = "ok"
    /\ Len(netRequests) = 1

(***************************************************************************)
(* Claims about the payload conversion.                                    *)
(***************************************************************************)
\* the fields other than Metadata that are not empty in the record are the
\* same in the decoded payload
PlainFieldsReproduced ==
    /\ hDecoded.IP = hRec.IP
    /\ hRec.Hostname # "" => hDecoded.Hostname = hRec.Hostname
    /\ hRec.OS # "" => hDecoded.OS = hRec.OS
    /\ hRec.MAC # "" => hDecoded.MAC = hRec.MAC
    /\ hRec.Note # "" => hDecoded.Note = hRec.Note
    /\ hRec.Tags # <<>> => hDecoded.Tags = Ref(hRec.Tags)
    /\ hRec.Ports # <<>> => hDecoded.Ports = Ref(hRec.Ports)
    /\ hRec.LastSeen # 0 => hDecoded.LastSeen = FormatRFC3339(hRec.LastSeen)

\* key k of the record's Metadata has the record's value after decoding
MetadataKept(k) ==
    /\ ~hDecoded.Metadata.nil
    /\ k \in DOMAIN hDecoded.Metadata.v
    /\ hDecoded.Metadata.v[k] = hRec.Metadata[k]

\* the metadata keys ToRemoteHostPayload derives from fields of the record
DerivedKeys ==
    (IF hRec.InterfaceName # "" THEN {"interface_name"} ELSE {})
    \cup (IF hRec.NetworkName # "" THEN {"network_name"} ELSE {})
    \cup (IF hRec.NextHop # "" THEN {"next_hop"} ELSE {})

DerivedValue(k) ==
    CASE k = "interface_name" -> hRec.InterfaceName
      [] k = "network_name" -> hRec.NetworkName
      [] k = "next_hop" -> hRec.NextHop

C13_Compaction ==
    /\ hPc \in {"converted", "decoded"} =>
          /\ hPayload.Tags.nil <=> hRec.Tags = <<>>
          /\ hPayload.Ports.nil <=> hRec.Ports = <<>>
          /\ hPayload.Metadata.nil <=> (DOMAIN hRec.Metadata = {} /\ DerivedKeys = {})
          /\ ~hPayload.Tags.nil => hPayload.Tags.v # <<>>
          /\ ~hPayload.Ports.nil => hPayload.Ports.v # <<>>
          /\ ~hPayload.Metadata.nil => DOMAIN hPayload.Metadata.v # {}
    /\ hPc = "decoded" =>
          /\ "tags" \in DOMAIN hWire <=> hRec.Tags # <<>>
          /\ "ports" \in DOMAIN hWire <=> hRec.Ports # <<>>
          /\ "note" \in DOMAIN hWire <=> hRec.Note # ""
          /\ "metadata" \in DOMAIN hWire <=> ~hPayload.Metadata.nil
          /\ "tags" \in DOMAIN hWire => hWire["tags"] # <<>>
          /\ "ports" \in DOMAIN hWire => hWire["ports"] # <<>>
          /\ "note" \in DOMAIN hWire => hWire["note"] # ""
          /\ "metadata" \in DOMAIN hWire => DOMAIN hWire["metadata"] # {}

\* C13 witness: a record without tags, ports, note and metadata of any
\* kind was converted and encoded, and none of the four keys was written.
C13_Witness ==
    /\ hPc = "decoded"
    /\ hRec.Tags = <<>> /\ hRec.Ports = <<>> /\ hRec.Note = ""
    /\ DOMAIN hRec.Metadata = {} /\ DerivedKeys = {}
    /\ hPayload.Tags = NilRef /\ hPayload.Ports = NilRef /\ hPayload.Metadata = NilRef
    /\ DOMAIN hWire \cap {"tags", "metadata", "ports", "note"} = {}

\* C38: ToRemoteHostPayload never mutates the HostRecord it is called on.
\* After the call the caller's record, its Metadata map, Tags and Ports
\* included, is what it was; the payload's metadata is another map: the
\* keys of Metadata and the derived keys interface_name, network_name and
\* next_hop of the non-empty record fields, a derived key carrying the
\* field's value and every other key the value Metadata has for it.
C38_RecordNotMutated ==
    hPc \in {"converted", "decoded"} =>
        /\ hAfter = hRec
        /\ hAfter.Metadata = hRec.Metadata
        /\ hAfter.Tags = hRec.Tags /\ hAfter.Ports = hRec.Ports
        /\ LET meta == metadataHeap(hRec).new
           IN  /\ hPayload.Metadata =
                     IF DOMAIN meta = {} THEN NilRef ELSE Ref(meta)
               /\ DOMAIN meta = DOMAIN hRec.Metadata \cup DerivedKeys
               /\ \A k \in DerivedKeys : meta[k] = DerivedValue(k)
               /\ \A k \in DOMAIN hRec.Metadata \ DerivedKeys :
                     meta[k] = hRec.Metadata[k]

\* C38 witness: a record on eth0 whose Metadata names wlan0 as its
\* interface was converted; the payload says eth0, the record's Metadata
\* still says wlan0, and the record has tags and ports.
C38_Witness ==
    /\ hPc = "converted"
    /\ hRec.InterfaceName = "eth0"
    /\ hRec.NextHop # ""
    /\ hRec.Tags # <<>> /\ hRec.Ports # <<>>
    /\ "interface_name" \in DOMAIN hRec.Metadata
    /\ hRec.Metadata["interface_name"] = "wlan0"
    /\ hPayload.Metadata.v["interface_name"] = "eth0"
    /\ hAfter.Metadata["interface_name"] = "wlan0"
    /\ "next_hop" \notin DOMAIN hAfter.Metadata

\* the text s occurs in the error e
ErrorContains(e, s) ==
    s = <<>> \/ \E i \in 1..Len(e) : i + Len(s) - 1 <= Len(e) /\ SubSeq(e, i, i + Len(s) - 1) = s

\* C14: PostPayload returns nil for every response status below 300 and,
\* for every status of 300 or more, an error that includes the text of the
\* response body.
C14_PostErrorHasBody ==
    (rPc = "done" /\ rCall \in {"PostPayload", "PostPayloadWithBody"} /\ rResp # <<>>) =>
        (~rResp.neterr =>
            /\ rResp.StatusCode < 300 => rRet = Nil
            /\ rResp.StatusCode >= 300 =>
                  /\ rRet # Nil
                  /\ ErrorContains(rRet, <<rResp.Status>>)
                  /\ ErrorContains(rRet, TrimSpace(rResp.Body)))

(***************************************************************************)
(* Claims about the emission of a cycle.                                   *)
(***************************************************************************)
\* the hosts the running call hands to emitHosts
CycleHosts == IF fn = "FastScan" THEN discovered ELSE remoteBatch

\* the payload emitHosts builds for the hosts of the running call
CyclePayload ==
    BuildRemotePayload(IF scanOpts.Remote.Config.SiteName = <<>>
                       THEN scanOpts.Remote.Config.SiteID
                       ELSE scanOpts.Remote.Config.SiteName,
                       IF scanOpts.Remote.Config.AgentVersion = "" THEN ScannerVersion
                       ELSE scanOpts.Remote.Config.AgentVersion,
                       CycleHosts)

\* C15: no retry and no resend.  A cycle makes at most one HTTP POST,
\* whether it fails or not, and the request of a cycle carries the payload
\* built from the hosts of that cycle's own scan, each seen in that cycle.
C15_NoRetryNoResend ==
    /\ Len(netRequests) <= 1
    /\ netRequests # <<>> =>
          /\ cpc = "returned"
          /\ netRequests[1].body = CyclePayload
          /\ \A i \in DOMAIN netRequests[1].body.Hosts :
                netRequests[1].body.Hosts[i].LastSeen = FormatRFC3339(clock)

\* C15 witness: the third run's POST failed after the second run had
\* failed too; the third run made one request, with its own hosts.
C15_Witness ==
    /\ iteration = 3
    /\ apc = "running"
    /\ AgentLogged("run_failed", 2)
    /\ cpc = "returned"
    /\ ret = <<"remote ingest failed: ", "500 Internal Server Error">>
    /\ Len(netRequests) = 1
    /\ Len(netRequests[1].body.Hosts) >= 1
    /\ clock = 3

\* the call made handed emit a payload with hosts
EmitMade == rPc = "done" /\ (rCall = "emit" \/ (rCall = "emitHosts" /\ rHosts # <<>>))

\* encoding/json can encode the payload built from the hosts of the call
REncodable == JsonEncodable(BuildRemotePayload(<<>>, "", rHosts))

\* C16 (as claimed): JSON echo and remote POST are orthogonal in emit.  For
\* a host list that is not empty the payload is printed to stdout exactly
\* when PrintJSON is set, and it is POSTed exactly when the RemoteConfig is
\* Enabled; with neither, nothing happens and nil is returned.
C16_EchoPostOrthogonal ==
    EmitMade =>
        /\ stdoutJSON # <<>> <=> rPrintJSON
        /\ netRequests # <<>> <=> Enabled(rcfg)
        /\ Len(stdoutJSON) <= 1 /\ Len(netRequests) <= 1
        /\ rPrintJSON /\ Enabled(rcfg) => stdoutJSON[1] = netRequests[1].body
        /\ ~Enabled(rcfg) => rRet = Nil

\* C16 (amended): for a host list that is not empty, the payload is printed
\* exactly when PrintJSON is set and the payload can be encoded, and it is
\* POSTed exactly when the RemoteConfig is Enabled, the payload can be
\* encoded and the endpoint parses as a URL; the echo needs no remote
\* configuration and the POST needs no echo.  A payload that cannot be
\* encoded is neither printed nor POSTed and, with PrintJSON or an enabled
\* configuration, emit returns the encoding error; an endpoint that does
\* not parse gives the parse error after the echo.  With neither PrintJSON
\* nor an enabled configuration nothing happens and nil is returned.
C16_EchoPostIndependent ==
    EmitMade =>
        /\ stdoutJSON # <<>> <=> (rPrintJSON /\ REncodable)
        /\ netRequests # <<>> <=>
              (Enabled(rcfg) /\ REncodable /\ UrlParses(endpoint(rcfg).url))
        /\ Len(stdoutJSON) <= 1 /\ Len(netRequests) <= 1
        /\ (stdoutJSON # <<>> /\ netRequests # <<>>) =>
              stdoutJSON[1] = netRequests[1].body
        /\ (~REncodable /\ (rPrintJSON \/ Enabled(rcfg))) => rRet = ErrMarshal
        /\ (REncodable /\ Enabled(rcfg) /\ ~UrlParses(endpoint(rcfg).url)) =>
              rRet = ErrParseURL
        /\ (REncodable /\ ~Enabled(rcfg)) => rRet = Nil
        /\ (~rPrintJSON /\ ~Enabled(rcfg)) => rRet = Nil

\* C16 witness: emit with PrintJSON and an enabled configuration whose
\* controller address has no scheme printed the payload of two hosts,
\* made no request and returned the parse error.
C16_Witness ==
    /\ rPc = "done"
    /\ rCall = "emit"
    /\ rPrintJSON
    /\ Enabled(rcfg)
    /\ rcfg.ControllerURL = BareAddress
    /\ Len(rHosts) = 2
    /\ stdoutJSON = <<BuildRemotePayload(<<"HQ">>, "v1", rHosts)>>
    /\ netRequests = <<>>
    /\ rRet = ErrParseURL

\* C17: a configuration error fails fast.  RunRemoteAgent called with a
\* RemoteConfig whose ControllerURL, SiteID or AgentID is empty returns its
\* configuration error without starting a cycle: no sweep, no probe, no
\* store access and no HTTP request.
C17_ConfigErrorFailsFast ==
    (Incomplete(cfg.Remote) /\ apc # "start") =>
        /\ apc = "returned"
        /\ agentRet = ErrAgentConfig
        /\ runs = 0 /\ cycles = 0 /\ activeRuns = {}
        /\ fn = "none" /\ cpc = "idle"
        /\ swept = <<>> /\ discovered = <<>> /\ tpc = <<>>
        /\ db = "nil" /\ hostsTable = <<>>
        /\ netRequests = <<>> /\ stdoutJSON = <<>>

\* C17 witness: the agent was started for a deep scan with a controller
\* and a site but no agent ID, and returned the configuration error.
C17_Witness ==
    /\ apc = "returned"
    /\ cfg.ScanCommand = "deepscan"
    /\ cfg.Remote.ControllerURL # <<>>
    /\ cfg.Remote.SiteID # <<>>
    /\ cfg.Remote.AgentID = <<>>
    /\ agentRet = ErrAgentConfig
    /\ runs = 0

(***************************************************************************)
(* Claims about the store in a cycle.                                      *)
(***************************************************************************)
OpenFailed == \E i \in DOMAIN progressLog : progressLog[i].kind = "open_failed"

\* C18: when DeepScan is to persist (SkipDB false) and opening the store
\* fails, it returns that error before any host task is launched: no
\* probe runs, no row is written and no payload is emitted.
C18_OpenFailureSkipsCycle ==
    (fn = "DeepScan" /\ OpenFailed) =>
        /\ ~scanOpts.SkipDB
        /\ cpc = "returned"
        /\ ret = ErrOpen
        /\ tpc = <<>> /\ tprobe = <<>> /\ trec = <<>>
        /\ remoteBatch = <<>> /\ ~joined
        /\ hostsTable = prevTable
        /\ netRequests = <<>> /\ stdoutJSON = <<>>

\* C18 witness: two hosts had been discovered and a controller was
\* configured when the open failed; DeepScan returned the open error.
C18_Witness ==
    /\ fn = "DeepScan"
    /\ OpenFailed
    /\ cpc = "returned"
    /\ ret = ErrOpen
    /\ Len(discovered) = 2
    /\ Enabled(scanOpts.Remote.Config)
    /\ hostsTable # <<>>

\* a host task of DeepScan has logged the failure of its upsert
UpdateFailed == \E i \in DOMAIN progressLog : progressLog[i].kind = "update_failed"

\* C19: a store write failure is fatal for every persisting mode.  When
\* SkipDB is false and the upsert of an observed host fails, FastScan
\* returns the error without emitting, and DeepScan, one of whose tasks
\* failed to upsert, returns an error as well.
C19_WriteFailureFatal ==
    (cpc = "returned" /\ ~scanOpts.SkipDB) =>
        /\ (fn = "FastScan" /\ ret = ErrExec) => (netRequests = <<>> /\ stdoutJSON = <<>>)
        /\ (fn = "DeepScan" /\ UpdateFailed) => ret # Nil

\* row i of the table the call found is still row i, with its key
RowKept(i) ==
    /\ i \in DOMAIN hostsTable
    /\ hostsTable[i].ip = prevTable[i].ip
    /\ hostsTable[i].interface_name = prevTable[i].interface_name

\* C20: rows are never deleted.  Through a persisting call of FastScan or
\* DeepScan, offline marking and upserts included, every row the table
\* held before is still there under its key, and the row of a host the
\* call did not observe is unchanged but for online_status, which can
\* only have become "offline".
C20_RowsNeverDeleted ==
    cpc # "idle" =>
        /\ Len(hostsTable) >= Len(prevTable)
        /\ \A i \in DOMAIN prevTable :
              /\ RowKept(i)
              /\ <<prevTable[i].ip, prevTable[i].interface_name>> \notin KeysOf(discovered)
                    => hostsTable[i] \in {prevTable[i],
                                          [prevTable[i] EXCEPT !.online_status = "offline"]}

\* C20 witness: a persisting DeepScan returned; the host that has left
\* still has its row, now offline, and the row of a host seen again
\* carries what the new probe found.
C20_Witness ==
    /\ fn = "DeepScan"
    /\ cpc = "returned"
    /\ ~scanOpts.SkipDB
    /\ prevTable = PriorTable
    /\ Len(hostsTable) = 3
    /\ prevTable[2].ip = "10.0.0.9" /\ prevTable[2].online_status = "online"
    /\ hostsTable[2] = [prevTable[2] EXCEPT !.online_status = "offline"]
    /\ hostsTable[1].ip = "10.0.0.1"
    /\ hostsTable[1].os_details = "Linux 5.X"
    /\ prevTable[1].os_details = "Unknown"

(***************************************************************************)
(* Claims about the agent's schedule and configuration.                    *)
(***************************************************************************)
\* a step that enters runOnce()
RunStarts == runs' = runs + 1

\* C21: the first cycle of RunRemoteAgent starts right after the
\* defaulting of the configuration, from the entry of the function, with
\* no ticker and no tick; while it runs no tick exists; every later cycle
\* starts by taking a tick from the ticker's channel.
C21_FirstCycleImmediate ==
    /\ [](apc = "initial" => (runs = 1 /\ iteration = 0 /\ ~tickReady
                              /\ cfg = ApplyDefaults(cfg)))
    /\ [][RunStarts =>
            IF runs = 0
            THEN apc = "start" /\ ~tickReady /\ ~tickReady' /\ cfg' = ApplyDefaults(cfg)
            ELSE apc = "loop" /\ tickReady /\ ~tickReady']_vars

\* C21 witness: the initial deep scan has returned after posting its
\* payload and no tick has ever been produced.
C21_Witness ==
    /\ apc = "initial"
    /\ cpc = "returned"
    /\ fn = "DeepScan"
    /\ runs = 1
    /\ ~tickReady
    /\ netRequests # <<>>

\* C22: defaulting.  Before the first cycle RunRemoteAgent replaces an
\* empty SiteName by SiteID, an empty AgentVersion by ScannerVersion, an
\* Interval <= 0 by 15 minutes and an empty ScanCommand by "deepscan", and
\* leaves every other value as it was given; the payload a cycle posts
\* carries the site name and agent version so defaulted.
C22_Defaulting ==
    (apc \notin {"idle", "start"} /\ Enabled(cfgArg.Remote)) =>
        /\ cfg.Remote.SiteName = IF cfgArg.Remote.SiteName = <<>>
                                 THEN cfgArg.Remote.SiteID ELSE cfgArg.Remote.SiteName
        /\ cfg.Remote.AgentVersion = IF cfgArg.Remote.AgentVersion = ""
                                     THEN "dev" ELSE cfgArg.Remote.AgentVersion
        /\ cfg.Interval = IF cfgArg.Interval <= 0 THEN 15 ELSE cfgArg.Interval
        /\ cfg.ScanCommand = IF cfgArg.ScanCommand = "" THEN "deepscan"
                             ELSE cfgArg.ScanCommand
        /\ cfg.Remote.ControllerURL = cfgArg.Remote.ControllerURL
        /\ cfg.Remote.SiteID = cfgArg.Remote.SiteID
        /\ cfg.Remote.AgentID = cfgArg.Remote.AgentID
        /\ cfg.Remote.Token = cfgArg.Remote.Token
        /\ cfg.Once = cfgArg.Once /\ cfg.PrintJSON = cfgArg.PrintJSON
        /\ (cycles >= 1 /\ Supported(cfg.ScanCommand)) => scanOpts.Remote.Config = cfg.Remote
        /\ netRequests # <<>> =>
              /\ netRequests[1].body.SiteName = cfg.Remote.SiteName
              /\ netRequests[1].body.AgentVersion = cfg.Remote.AgentVersion
              /\ netRequests[1].body.SiteName # <<>>
              /\ netRequests[1].body.AgentVersion # ""

\* C22 witness: an agent called with no site name, no agent version, no
\* interval and no scan command has run a deep scan and posted a payload
\* under the site ID and the scanner version.
C22_Witness ==
    /\ cfgArg.Remote.SiteName = <<>> /\ cfgArg.Remote.AgentVersion = ""
    /\ cfgArg.Interval = 0 /\ cfgArg.ScanCommand = ""
    /\ cfg.Interval = 15
    /\ fn = "DeepScan"
    /\ netRequests # <<>>
    /\ netRequests[1].body.SiteName = <<"site1">>
    /\ netRequests[1].body.AgentVersion = "dev"

(***************************************************************************)
(* Claims about the two views of a host's ports.                           *)
(***************************************************************************)
\* the text without its spaces
StripSpaces(q) == SelectSeq(q, LAMBDA t : t # " ")

\* one summary entry per port, "port/protocol" and " (service)" if any
SummaryEntry(p) ==
    LET part == <<FormatInt(p.Port), "/">> \o p.Protocol
    IN  IF p.Service # <<>> THEN part \o <<" ", "(">> \o p.Service \o <<")">> ELSE part

\* the summary that names the ports of the list, in its order
SummaryOfPorts(ports) ==
    IF ports = <<>> THEN <<"Unknown">>
    ELSE Join([i \in 1..Len(ports) |-> SummaryEntry(ports[i])], <<",", " ">>)

\* C23: PortSummary and Ports never disagree.  For every input,
\* parseNmapPorts returns a Summary with one entry per element of Ports,
\* in the same order, naming the same port number and protocol (spaces
\* aside), and the Summary is "Unknown" exactly when Ports is empty.
C23_SummaryAgreesWithPorts ==
    pPc = "done" =>
        /\ details.Summary = <<"Unknown">> <=> details.Ports = <<>>
        /\ StripSpaces(details.Summary) = StripSpaces(SummaryOfPorts(details.Ports))

\* the entries parseNmapPorts retains: five fields or more, state open or
\* filtered
RetainedEntries(es) ==
    SelectSeq(es, LAMBDA e : ~e.short /\ e.state \in {"open", "filtered"})

\* C26: for every entry parseNmapPorts retains, the first of the list or
\* not, the RemotePort has the integer value of the entry's port token as
\* Port, its second token as State, its third as Protocol and its fifth
\* as Service.
C26_PortFieldsOfEveryEntry ==
    pPc = "done" =>
        LET kept == RetainedEntries(pEntries)
        IN  /\ Len(details.Ports) = Len(kept)
            /\ \A i \in 1..Len(kept) :
                  /\ details.Ports[i].Port = DigitsValue(kept[i].port)
                  /\ details.Ports[i].State = <<kept[i].state>>
                  /\ details.Ports[i].Protocol = <<kept[i].proto>>
                  /\ details.Ports[i].Service = Opt(kept[i].service)

\* the progress log has an entry of a store operation
StoreLogged ==
    \E i \in DOMAIN progressLog :
        progressLog[i].kind \in {"open_failed", "mark_failed", "update_failed"}

\* C24: an agent never touches the local store.  Every cycle that
\* RunRemoteAgent starts, fast or deep, runs with SkipDB = true: it never
\* comes to the persisting stage, the store is never opened, no row is
\* marked offline and no row is upserted.
C24_AgentSkipsStore ==
    (apc # "idle" /\ cycles >= 1) =>
        /\ scanOpts.SkipDB
        /\ cpc \notin {"persist", "opendb"}
        /\ db = "nil"
        /\ markedScope = {}
        /\ hostsTable = <<>>
        /\ ~StoreLogged

\* C24 witness: the agent's second run, a deep scan, has probed two hosts
\* and returned, and the store is as it was.
C24_Witness ==
    /\ apc = "running"
    /\ iteration = 2
    /\ fn = "DeepScan"
    /\ cpc = "returned"
    /\ joined
    /\ Len(remoteBatch) = 2
    /\ scanOpts.SkipDB
    /\ db = "nil"
    /\ hostsTable = <<>>

(***************************************************************************)
(* Claims about the fastscan command.                                      *)
(***************************************************************************)
\* --remote, --site and --agent are all given
CompleteRemoteFlags ==
    cliArgs.remote # <<>> /\ cliArgs.site # <<>> /\ cliArgs.agent # <<>>

\* C25: for the fastscan command, when --json is set or a complete remote
\* configuration is given, parseFastScanOptions yields SkipDB = true and
\* FastScan makes no store write and no external-IP update; when neither
\* is set SkipDB is the --skip-db flag.
C25_RemoteImpliesSkipDB ==
    (cpc # "idle" /\ cliArgs # <<>>) =>
        /\ scanOpts.SkipDB = (cliArgs.skipDB \/ cliArgs.json \/ CompleteRemoteFlags)
        /\ scanOpts.Remote.PrintJSON = cliArgs.json
        /\ (cliArgs.json \/ CompleteRemoteFlags) =>
              /\ cpc # "persist"
              /\ hostsTable = prevTable
              /\ markedScope = {}
              /\ externalNetworks = <<>>

\* C25 witness: fastscan --json without --skip-db found a host, printed
\* the payload and left both tables as they were.
C25_Witness ==
    /\ cliArgs # <<>>
    /\ cliArgs.json /\ ~cliArgs.skipDB /\ ~CompleteRemoteFlags
    /\ cpc = "returned"
    /\ ret = Nil
    /\ discovered # <<>>
    /\ stdoutJSON # <<>>
    /\ netRequests = <<>>
    /\ hostsTable = PriorTable
    /\ externalNetworks = <<>>

(***************************************************************************)
(* Claims about the host tasks of DeepScan and the store.                  *)
(***************************************************************************)
\* the tasks that have called upsertHost and not yet returned from it
InUpsert == {i \in DOMAIN tpc : tpc[i] = "upsert"}

\* C27: the store writes of a DeepScan cycle with persistence are
\* sequential: in no reachable state are two host tasks executing
\* upsertHost at the same time.
C27_StoreWritesSequential ==
    (fn = "DeepScan" /\ db = "open") => Cardinality(InUpsert) <= 1

\* the interfaces whose sweep of this cycle succeeded
SweptOk == {swept[i].iface.Name : i \in {j \in DOMAIN swept : swept[j].ok}}

\* C28: absence becomes offline.  After every persisting fast-scan cycle
\* every previously stored row on an interface swept in that cycle whose
\* host was not observed in that cycle is "offline", for every number of
\* observed hosts, zero included.
C28_AbsenceBecomesOffline ==
    FastPersisted =>
        \A i \in DOMAIN prevTable :
            LET k == <<prevTable[i].ip, prevTable[i].interface_name>>
            IN  (prevTable[i].interface_name \in SweptOk /\ k \notin KeysOf(discovered)) =>
                    (RowsOfKey(k) # {} /\ RowOfKey(k).online_status = "offline")

\* task i has returned from upsertHost and its statement was executed
Upserted(i) ==
    /\ tpc[i] \in {"lock", "write", "unlocked", "done"}
    /\ \A j \in DOMAIN progressLog :
          ~(progressLog[j].kind = "update_failed" /\ progressLog[j].what = trec[i].IP)

\* a host task returns from upsertHost
UpsertReturns == \E i \in DOMAIN tpc : tpc[i] = "upsert" /\ tpc'[i] = "lock"

\* the line "Failed to mark hosts as offline" reached a writer
MarkFailedLogged ==
    \E j \in DOMAIN progressLog :
        progressLog[j].kind = "mark_failed" /\ progressLog[j].written

\* C29: in a DeepScan cycle with persistence the offline marking of all
\* rows completes before any host task performs its upsert: the table
\* changes only in the marking step, while no task exists, and in the
\* upserts of the tasks, so every row a task has upserted keeps the status
\* the task wrote; a failed marking is logged and the cycle goes on through
\* its tasks to the barrier.  "Logged" is: the line reached the progress
\* log's writers.
C29_MarkingPrecedesUpserts ==
    /\ []((fn = "DeepScan" /\ db = "open") =>
            /\ \A i \in DOMAIN tpc :
                  Upserted(i) =>
                     LET k == <<trec[i].IP, trec[i].InterfaceName>>
                     IN  /\ Cardinality(RowsOfKey(k)) = 1
                         /\ RowOfKey(k).online_status = RowOf(trec[i], clock).online_status
            /\ markedScope = {} =>
                  /\ MarkFailedLogged
                  /\ ret # ErrOpen
                  /\ cpc = "returned" => joined)
    /\ [][(fn = "DeepScan" /\ hostsTable' # hostsTable) =>
              \/ cpc = "opendb" /\ tpc = <<>> /\ "all" \in markedScope'
              \/ UpsertReturns /\ "all" \in markedScope /\ markedScope' = markedScope
              \/ UpsertReturns /\ markedScope = {} /\ markedScope' = markedScope]_vars

\* C29 witness: the marking flipped a stored row to offline, the task of
\* that host upserted it as online afterwards, and the row is still online
\* once the barrier has released.
C29_Witness ==
    /\ fn = "DeepScan"
    /\ db = "open"
    /\ "all" \in markedScope
    /\ joined
    /\ \E i \in DOMAIN tpc :
          LET k == <<trec[i].IP, trec[i].InterfaceName>>
          IN  /\ Upserted(i)
              /\ trec[i].OnlineStatus = "online"
              /\ k \in {<<prevTable[j].ip, prevTable[j].interface_name>> : j \in DOMAIN prevTable}
              /\ RowOfKey(k).online_status = "online"

\* the probe of some host task of the cycle never returns
Hung == \E i \in DOMAIN tpc : tpc[i] = "hung"

\* C30: a hung probe blocks everything behind it.  Once the probe of one
\* host task never returns, the join barrier of the cycle is never
\* released, nothing is emitted for the cycle, not even the records of the
\* tasks that finished, and no later cycle of the agent starts.
C30_HungProbeBlocks ==
    /\ [](Hung => /\ cpc = "wait"
                  /\ ~joined
                  /\ netRequests = <<>>
                  /\ stdoutJSON = <<>>
                  /\ activeRuns = {runs}
                  /\ ~LoopReceives(apc))
    /\ [][Hung => (Hung' /\ runs' = runs /\ cycles' = cycles /\ agentLog' = agentLog)]_vars

\* C30 witness: in a ticker-driven run one task hangs in its probe after
\* another has put its record into the accumulator; the ticker has fired
\* and its tick is not taken.
C30_Witness ==
    /\ Hung
    /\ apc = "running"
    /\ iteration >= 2
    /\ tickReady
    /\ \E i \in DOMAIN tpc : tpc[i] = "done"
    /\ remoteBatch # <<>>
    /\ Enabled(scanOpts.Remote.Config)

\* the positions of the progress lines of the host tasks in the log
ProgressIdx == {j \in DOMAIN progressLog : progressLog[j].kind = "progress"}

\* C31: running ETA.  Every progress line a host task writes when it
\* completes reports hosts_done equal to the number of host tasks of the
\* cycle that have completed so far, hosts_left = total - hosts_done and
\* estimated_remaining = (elapsed / hosts_done) * hosts_left, under every
\* completion order of the tasks.
C31_RunningETA ==
    fn = "DeepScan" =>
        \A p \in ProgressIdx :
            LET n == Cardinality({q \in ProgressIdx : q <= p})
                l == progressLog[p].what
            IN  /\ l.done = n
                /\ l.left = Len(discovered) - n
                /\ l.est = (l.elapsed \div n) * l.left

(***************************************************************************)
(* Claims about the hostname resolver chain and the sweep report.          *)
(***************************************************************************)
\* the sweep reported a meaningful name
SweepNamed == bIn.nmapName \notin {"", "NoName"}

\* the reverse lookup succeeded with a non-empty name
DnsNamed ==
    /\ ~bIn.lookup.err
    /\ bIn.lookup.names # <<>>
    /\ bIn.lookup.names[1].name # ""

\* the lines of nbtscan that name the host
NbtHits == {i \in DOMAIN bIn.nbt.lines :
               Len(bIn.nbt.lines[i]) >= 2 /\ bIn.nbt.lines[i][1] = bIn.ip}

\* the NetBIOS query returned a name
NbtNamed == ~bIn.nbt.err /\ NbtHits # {}

NbtFirstName ==
    bIn.nbt.lines[CHOOSE i \in NbtHits : \A j \in NbtHits : i <= j][2]

\* the name and the lookups the chain yields when its reverse-DNS step
\* counts as succeeded exactly when dnsWins holds
ChainResult(dnsWins) ==
    IF SweepNamed THEN [name |-> bIn.nmapName, calls |-> <<>>]
    ELSE IF dnsWins
    THEN [name |-> bIn.lookup.names[1].name, calls |-> <<"LookupAddr">>]
    ELSE IF NbtNamed THEN [name |-> NbtFirstName, calls |-> <<"LookupAddr", "nbtscan">>]
    ELSE [name |-> "NoName", calls |-> <<"LookupAddr", "nbtscan">>]

\* C32 (as claimed): hostname resolver chain, first success wins.
\* bestHostName returns the sweep-reported name when it is non-empty and
\* not "NoName"; otherwise the reverse-DNS name when that lookup succeeds
\* with a non-empty name; otherwise the NetBIOS name when that query
\* returns a non-empty name; otherwise "NoName"; no later step is consulted
\* after an earlier one succeeded.
C32_ResolverChain ==
    bPc = "done" => bOut = ChainResult(DnsNamed)

\* C32 (amended): as above, the reverse-DNS step succeeding only with a
\* name that is non-empty and not the placeholder "NoName"; the name
\* returned is never empty.
C32_ResolverChainPlaceholder ==
    bPc = "done" =>
        /\ bOut = ChainResult(DnsNamed /\ bIn.lookup.names[1].name # "NoName")
        /\ bOut.name # ""

\* C32 witness: the sweep gave no name, the reverse lookup answered with a
\* host called NoName, and the NetBIOS name was returned.
C32_Witness ==
    /\ bPc = "done"
    /\ ~SweepNamed
    /\ DnsNamed
    /\ bIn.lookup.names[1].name = "NoName"
    /\ NbtNamed
    /\ bOut.name = "PRINTER"
    /\ bOut.calls = <<"LookupAddr", "nbtscan">>

\* a field without its parentheses
Bare(f) == SelectSeq(f, LAMBDA t : t \notin {"(", ")"})

\* the report lines of five or six fields, in the order of the output
CountedLines ==
    SelectSeq(nOut.lines, LAMBDA l : HasReportPrefix(l) /\ Len(l) \in {5, 6})

\* the report lines of five fields and those of six whose sixth field
\* opens with a parenthesis
ShapedLines ==
    SelectSeq(nOut.lines,
              LAMBDA l : /\ HasReportPrefix(l)
                         /\ \/ Len(l) = 5
                            \/ Len(l) = 6 /\ l[6] # <<>> /\ l[6][1] = "(")

\* runNmap's map holds the entries of discoverLiveHosts' list, the last
\* entry of an address winning
SameEntries ==
    /\ DOMAIN nMap.hosts = {nList.hosts[i].IP : i \in DOMAIN nList.hosts}
    /\ \A i \in DOMAIN nList.hosts :
          (\A j \in DOMAIN nList.hosts : j > i => nList.hosts[j].IP # nList.hosts[i].IP)
              => nMap.hosts[nList.hosts[i].IP] = nList.hosts[i].Name

\* C33 (as claimed): sweep report parsing by field count.  A report line
\* "<ip> (<name>)" yields IP = <ip> and name = <name>, a line with a bare
\* "<ip>" yields IP = <ip> and name "NoName", the shapes are told apart
\* only by the number of fields, any other field count yields no entry, and
\* runNmap and discoverLiveHosts parse every line identically.
C33_ReportByFieldCount ==
    (nPc = "done" /\ ~nOut.err) =>
        /\ Len(nList.hosts) = Len(CountedLines)
        /\ \A i \in DOMAIN CountedLines :
              nList.hosts[i] =
                 IF Len(CountedLines[i]) = 6
                 THEN [IP |-> CountedLines[i][5], Name |-> Bare(CountedLines[i][6])]
                 ELSE [IP |-> CountedLines[i][5], Name |-> <<"NoName">>]
        /\ SameEntries

\* C33 (amended): a report line of six fields whose sixth opens with a
\* parenthesis, nmap's "<name> (<ip>)", yields IP = the sixth field without
\* its parentheses and name = the fifth field; a report line of five
\* fields yields IP = the fifth field and name "NoName"; every other line
\* yields no entry; runNmap and discoverLiveHosts parse every line
\* identically, and both return the error of a failed nmap with no entry.
C33_ReportByShape ==
    nPc = "done" =>
        IF nOut.err
        THEN /\ nList = [hosts |-> <<>>, err |-> ErrNmap]
             /\ nMap.err = ErrNmap /\ DOMAIN nMap.hosts = {}
        ELSE /\ nList.err = Nil /\ nMap.err = Nil
             /\ Len(nList.hosts) = Len(ShapedLines)
             /\ \A i \in DOMAIN ShapedLines :
                   nList.hosts[i] =
                      IF Len(ShapedLines[i]) = 6
                      THEN [IP |-> Bare(ShapedLines[i][6]), Name |-> ShapedLines[i][5]]
                      ELSE [IP |-> ShapedLines[i][5], Name |-> <<"NoName">>]
             /\ SameEntries

\* C33 witness: of nmap's line "web (10.0.0.1)" and a line of six fields
\* without a parenthesis, the first alone yielded an entry.
C33_Witness ==
    /\ nPc = "done"
    /\ ~nOut.err
    /\ nOut.lines = <<ReportPrefix \o <<<<"web">>, <<"10.0.0.1">>>>,
                      ReportPrefix \o <<<<"web">>, <<"(", "10.0.0.1", ")">>>>>>
    /\ nList.hosts = <<[IP |-> <<"10.0.0.1">>, Name |-> <<"web">>]>>
    /\ nMap.hosts[<<"10.0.0.1">>] = <<"web">>

(***************************************************************************)
(* Claims about the agent's cycle counter and its ticks.                   *)
(***************************************************************************)
OutcomeKinds == {"run_finished", "run_failed"}

\* C34: cycle counter.  In repeating mode the initial cycle counts as 1
\* and every tick increases the counter by exactly 1 before its cycle
\* starts, whether the previous cycle succeeded or failed; the logged
\* counter values increase strictly with no repeat and no gap, and every
\* started cycle logs exactly one outcome line before the next cycle starts.
C34_CycleCounter ==
    /\ [](/\ apc \in {"loop", "running"} => (iteration = runs /\ iteration >= 1)
          /\ \A i \in DOMAIN agentLog :
                /\ agentLog[i].kind = "run_starting" =>
                      /\ i >= 2
                      /\ agentLog[i - 1].kind \in OutcomeKinds \cup {"initial_completed"}
                      /\ agentLog[i].run = agentLog[i - 1].run + 1
                /\ agentLog[i].kind \in OutcomeKinds =>
                      /\ i >= 2
                      /\ agentLog[i - 1] = AgentLine("run_starting", agentLog[i].run)
                /\ agentLog[i].kind = "initial_completed" => (i = 1 /\ agentLog[i].run = 1)
          /\ apc = "loop" =>
                (agentLog # <<>> /\ agentLog[Len(agentLog)].kind
                                      \in OutcomeKinds \cup {"initial_completed"}))
    /\ [][(RunStarts /\ runs >= 1) =>
             /\ iteration' = iteration + 1
             /\ agentLog' = Append(agentLog, AgentLine("run_starting", iteration + 1))]_vars

\* C34 witness: the second cycle failed and the third was started and
\* finished; the log numbers them 2 and 3.
C34_Witness ==
    /\ apc = "loop"
    /\ iteration = 3
    /\ agentLog = <<AgentLine("initial_completed", 1),
                    AgentLine("run_starting", 2), AgentLine("run_failed", 2),
                    AgentLine("run_starting", 3), AgentLine("run_finished", 3)>>

\* C39: ticks do not pile up.  Ticks that fire while a cycle is running
\* are not queued beyond one: a tick that finds one waiting is dropped;
\* every cycle of the loop takes the one waiting tick, so that after a
\* cycle that lasted several intervals at most one cycle starts without
\* waiting for a new tick; and the number of cycles started never exceeds
\* 1 + the number of ticks fired.
C39_TicksDoNotPileUp ==
    /\ [](/\ runs <= 1 + ticksFired
          /\ tickReady => runs <= ticksFired
          /\ apc \in {"start", "initial"} => (ticksFired = 0 /\ ~tickReady))
    /\ [][(RunStarts /\ runs >= 1) => (tickReady /\ ~tickReady')]_vars
    /\ [][(ticksFired' # ticksFired) =>
             (ticksFired' = ticksFired + 1 /\ tickReady' /\ runs' = runs)]_vars

\* C39 witness: three ticks fired and one of them was dropped because
\* another was waiting; two cycles of the loop took the other two, and
\* after the third cycle the loop waits with no tick left.
C39_Witness ==
    /\ apc = "loop"
    /\ runs = 3
    /\ ticksFired = 3
    /\ ~tickReady
    /\ agentLog[Len(agentLog)].kind \in OutcomeKinds

\* the cycle went through its sweeps to emitHosts and found no host
EmptyCycleReturned == cpc = "returned" /\ SweepsDone /\ discovered = <<>>

\* C35: a cycle that discovers no host sends nothing.  emitHosts called
\* with an empty host list returns nil without printing JSON and without
\* any HTTP POST, even when PrintJSON is set and the RemoteConfig is
\* Enabled; the controller receives no payload for the cycle and the agent
\* counts the cycle as successful.
C35_EmptyCycleSendsNothing ==
    EmptyCycleReturned =>
        /\ Enabled(scanOpts.Remote.Config)
        /\ ret = Nil
        /\ netRequests = <<>>
        /\ stdoutJSON = <<>>
        /\ apc \in {"loop", "returned"} =>
              /\ agentRet = Nil
              /\ agentLog[Len(agentLog)].kind \in {"initial_completed", "run_finished"}

\* C35 witness: a ticker-driven cycle of an agent that prints and posts
\* found no host on any interface and was logged as finished.
C35_Witness ==
    /\ EmptyCycleReturned
    /\ scanOpts.Remote.PrintJSON
    /\ Enabled(scanOpts.Remote.Config)
    /\ apc = "loop"
    /\ iteration = 2
    /\ agentLog[Len(agentLog)] = AgentLine("run_finished", 2)
    /\ netRequests = <<>>
    /\ stdoutJSON = <<>>

\* the host tasks whose probe is running
Probing == {i \in DOMAIN tpc : tpc[i] \in {"nmap", "read", "hung"}}

\* C36: scratch files are per host task.  Within one DeepScan cycle no two
\* host tasks whose probes run at the same time write or read the same
\* scratch file, for every list of discovered hosts, lists in which one
\* address was discovered on two interfaces included.
C36_ScratchFilePerTask ==
    fn = "DeepScan" =>
        \A i, j \in Probing :
            i # j => ScratchFile(discovered[i].IP) # ScratchFile(discovered[j].IP)

=============================================================================
